---- MODULE Spec2Model ----
(***************************************************************************)
(* Model of the Redis utility layer of src/redis-config-template.js:       *)
(* the fixed-window rate limiter (rateLimiter.checkLimit / resetLimit) and *)
(* the priority job queue (queue.addJob / getNextJob / getQueueLength).    *)
(*                                                                         *)
(* The backing store is modelled by what the Redis commands used by the    *)
(* code do: INCR, EXPIRE, TTL, DEL on string keys with expiry, and ZADD,   *)
(* ZPOPMAX, ZCARD on sorted sets.  Every store command is one atomic step; *)
(* a handler that awaits several commands is a sequence of steps between   *)
(* which other callers run and time passes.                                *)
(***************************************************************************)
EXTENDS Integers, Sequences, FiniteSets

\* ------------------------------------------------------------------------
\* Bounds of the model
\* ------------------------------------------------------------------------
MaxM == 2        \* maxRequests ranges over 0..MaxM
MaxW == 2        \* windowSeconds ranges over 1..MaxW
MaxTime == 3     \* the clock stops at MaxTime
MaxCount == 3    \* no INCR is issued on a counter that reached MaxCount
MaxJobs == 2     \* no ZADD is issued once MaxJobs jobs were added
MaxTtl == 2      \* ttlSeconds arguments range over 0..MaxTtl
MaxStamp == 1    \* Date.now() is read at 0..MaxStamp by updateStep

Callers == {"c1", "c2"}
Identifiers == {"u1"}
QueueNames == {"whatsapp_messages", "automation_rules"}
Payloads == {[x |-> 1]}        \* jobData documents
\* messageData / automationData documents, with or without a priority
MessageData == {[x |-> 1], [x |-> 1, priority |-> 10]}
Priorities == {5, 10}
Suffixes == {"a", "b"}         \* values of the random id suffix

\* A nullable value: <<>> is null, <<x>> is x.
Null == <<>>
Some(x) == <<x>>

\* Outcome of one store command: "ok"; "err": the command did not reach the
\* store and the client rejects; "lost": the store executed the command but
\* the reply did not arrive within commandTimeout and the client rejects.
Outcomes == {"ok", "err", "lost"}
Applied(o) == o # "err"
Rejected(o) == o # "ok"

SessionIds == {"s1", "s2"}
UserIds == {"ua", "ub"}
\* sessionData documents; the last carries a sessionId field of its own
SessionData ==
    {[userId |-> "ua"], [userId |-> "ub"],
     [userId |-> "ua", sessionId |-> "s2"]}
\* contactIds: a contact may have the id of a session
Participants == {"s1"}
\* An object without fields
EmptyDoc == <<>>
\* conversationData documents
ConvData ==
    {[step |-> 1, contextData |-> [a |-> 1, b |-> 1], lang |-> "en"],
     [lang |-> "en"]}
Steps == {2}
\* contextData arguments of updateStep: the default {} and {b: 2}
ContextArgs == {EmptyDoc, [b |-> 2]}
TtlArgs == 0..MaxTtl

\* `session:${sessionId}` and `conversation:${contactId}`
\* Variant: one key for every session.
SessionKeyShared(sessionId) == <<"session", "s1">>

SessionKey(sessionId) == <<"session", sessionId>>
\* Variant: conversation states are kept under the prefix of the sessions.
ConvKeySessionPrefix(contactId) == <<"session", contactId>>

ConvKey(contactId) == <<"conversation", contactId>>
\* `ratelimit:${identifier}` and `queue:${queueName}`: the keys of the
\* counters (counter, ttlLeft) and of the sorted sets (zset)
RateLimitKey(identifier) == <<"ratelimit", identifier>>
QueueKey(queueName) == <<"queue", queueName>>
\* Keys passed to cache directly
CacheKeys == {<<"key", "k1">>, <<"key", "k2">>}
Keys == {SessionKey(i) : i \in SessionIds}
           \cup {ConvKey(p) : p \in Participants}
           \cup CacheKeys

\* Values passed to cache.set: null, 0, NaN, {n: 1} and {n: 1, u: undefined}
\* (undef names the fields whose value is undefined)
JsNull == [kind |-> "null"]
CacheValues ==
    {JsNull,
     [kind |-> "number", num |-> 0],
     [kind |-> "nan"],
     [kind |-> "object", fields |-> [n |-> 1], undef |-> {}],
     [kind |-> "object", fields |-> [n |-> 1], undef |-> {"u"}]}
\* ttlSeconds passed to cache.set and cache.expire
CacheTtlArgs == -1..MaxTtl

VARIABLES
    now,            \* clock, in seconds
    maxRequests,    \* the maxRequests argument the callers pass
    windowSeconds,  \* the windowSeconds argument the callers pass
    counter,        \* counter[id]: value stored at ratelimit:<id>, 0 = key absent
    ttlLeft,        \* ttlLeft[id]: seconds to expiry, -1 = key has no expiry
    pc,             \* pc[c]: position of caller c inside checkLimit
    cid,            \* cid[c]: the identifier of c's call
    cnt,            \* cnt[c]: currentCount of c's call
    ret,            \* ret[c]: the object c's call returns
    threw,          \* threw[c]: the store command of c's call that rejected
    resetRet,       \* what the last resetLimit returned
    \* history variables (not read by the program)
    hits,           \* hits[id]: INCRs issued on the current key of id
    kth,            \* kth[c]: hits[cid[c]] right after c's INCR
    fresh,          \* fresh[c]: c's INCR was the first after a "reset"
                    \* (resetLimit) or a "lapse" (expiry) of the key, or "no"
    vacated,        \* vacated[id]: how the key was last removed ("reset",
                    \* "lapse") if no INCR was issued since, else "no"
    armedAt,        \* armedAt[id]: time of the last EXPIRE on the current key
    winAllowed,     \* winAllowed[id]: admitted INCRs on the current key
    recent,         \* recent[id][a]: admitted INCRs issued at time now - a
    noFault,        \* no store command of checkLimit, resetLimit or a queue
                    \* operation was rejected so far
    noReset,        \* no resetLimit was called so far
    \* the job queues
    ms,             \* what Date.now() reads, in milliseconds
    zset,           \* zset[q]: the sorted set queue:<q>, pairs <<score, member>>
    qRet,           \* the last queue operation that returned and the
                    \* value it returned
    \* history variables (not read by the program)
    addLog,         \* addLog[q]: the members ZADD stored in q, in order
    popLog,         \* popLog[q]: the jobs getNextJob returned from q and the
                    \* number of jobs added to q before, in order
    \* the string keys of the store (sessions, conversation states)
    kv,             \* kv[k]: the text stored at key k, Null = key absent
    kvTtl,          \* kvTtl[k]: seconds to expiry, -1 = no expiry, 0 = absent
    \* sessionStore
    sRet,           \* the last sessionStore operation that returned and the
                    \* value it returned
    scanPc,         \* position of the getUserSessions call: "idle", "loop"
    scanUser,       \* its userId argument
    scanKeys,       \* the keys it has still to load
    scanOut,        \* its sessions array
    scanFrom,       \* (history) the session ids its entries were loaded from
    scanQuiet,      \* (history) since its KEYS no command of the call was
                    \* rejected and no key was written, removed or expired
    gone,           \* (history) gone[i]: how session i ended if it is absent:
                    \* "expired", "revoked", else "no"
    \* conversationCache
    uPc,            \* uPc[c]: position of caller c inside updateStep
    uArg,           \* uArg[c]: the arguments of c's updateStep
    uCur,           \* uCur[c]: currentState of c's updateStep
    uReadOk,        \* (history) uReadOk[c]: c's read was not rejected
    uSeen,          \* (history) uSeen[c]: the contextData keys of the
                    \* stored state when c's updateStep was called
    cRet,           \* the last conversationCache operation that returned
                    \* and the value it returned
    \* cache
    aRet,           \* the last cache operation that returned: its name,
                    \* its key, the value passed to set, what it returned
    aLife,          \* (history) aLife[k]: the ttlSeconds of the last set or
                    \* expire that the store executed on k, 0 if it gave
                    \* no expiry or the key was deleted since
    aAge,           \* (history) aAge[k]: the seconds passed since then
    \* healthCheck
    hPc,            \* position of the checkHealth call: "idle", "info"
    hRt,            \* its responseTime, in milliseconds
    hRet,           \* what the last checkHealth returned, Null before
    \* the client
    facade          \* the exported object the client imported, "any" when it
                    \* has them all

rlVars == <<maxRequests, windowSeconds, counter, ttlLeft, pc, cid, cnt, ret,
            threw, resetRet, hits, kth, fresh, vacated, armedAt,
            winAllowed, recent, noReset>>

qVars == <<ms, zset, qRet, addLog, popLog>>

sVars == <<sRet, scanPc, scanUser, scanKeys, scanOut, scanFrom, scanQuiet,
           gone>>

cVars == <<uPc, uArg, uCur, uReadOk, uSeen, cRet>>

aVars == <<aRet, aLife, aAge>>

hVars == <<hPc, hRt, hRet>>

kvVars == <<kv, kvTtl, sVars, cVars, aVars, hVars, facade>>

vars == <<now, noFault, rlVars, qVars, kvVars>>

\* ------------------------------------------------------------------------
\* Store commands on a counter key
\* ------------------------------------------------------------------------
Max(a, b) == IF a >= b THEN a ELSE b

\* Variant: an increment of a key that exists is lost.
RedisIncrLost(old) == Max(1, old)

\* INCR: an absent key counts as 0.
RedisIncr(old) == old + 1

\* TTL: -2 for an absent key, -1 for a key without expiry.
RedisTtl(id) == IF counter[id] = 0 THEN -2 ELSE ttlLeft[id]

\* ------------------------------------------------------------------------
\* rateLimiter.checkLimit
\* ------------------------------------------------------------------------
\* Variant: EXPIRE is issued on every call.
ArmsWindowEveryCall(currentCount) == currentCount >= 1

ArmsWindow(currentCount) == currentCount = 1

\* The seconds checkLimit passes to EXPIRE.
\* Variant: the window is passed in milliseconds.
ExpireArgMillis(W) == W * 1000

ExpireArg(W) == W

\* Variant: no floor at 0.
RemainingNoFloor(M, currentCount) == M - currentCount

Remaining(M, currentCount) == Max(0, M - currentCount)

\* Variant: off by one.
AllowedOffByOne(M, currentCount) == currentCount <= M + 1

Allowed(M, currentCount) == currentCount <= M

ResetTime(ttl, t) == IF ttl > 0 THEN Some(t + ttl) ELSE Null

CheckLimitResult(M, currentCount, ttl, t) ==
    [allowed |-> Allowed(M, currentCount),
     count |-> currentCount,
     remaining |-> Remaining(M, currentCount),
     resetTime |-> ResetTime(ttl, t)]

\* Variant: fail closed.
FailClosedResult(M) ==
    [allowed |-> FALSE, count |-> 0, remaining |-> 0, resetTime |-> Null]

\* Variant: the catch block reports nothing remaining.
FailOpenNoRemaining(M) ==
    [allowed |-> TRUE, count |-> 0, remaining |-> 0, resetTime |-> Null]

FailOpenResult(M) ==
    [allowed |-> TRUE, count |-> 0, remaining |-> M, resetTime |-> Null]

NoResult == [allowed |-> FALSE, count |-> 0, remaining |-> 0, resetTime |-> Null]

ZeroAges == [a \in 0..(MaxW - 1) |-> 0]

Init ==
    /\ now = 0
    /\ maxRequests \in 0..MaxM
    /\ windowSeconds \in 1..MaxW
    /\ counter = [id \in Identifiers |-> 0]
    /\ ttlLeft = [id \in Identifiers |-> -1]
    /\ pc = [c \in Callers |-> "idle"]
    /\ cid = [c \in Callers |-> CHOOSE id \in Identifiers : TRUE]
    /\ cnt = [c \in Callers |-> 0]
    /\ ret = [c \in Callers |-> NoResult]
    /\ threw = [c \in Callers |-> "none"]
    /\ resetRet = Null
    /\ hits = [id \in Identifiers |-> 0]
    /\ kth = [c \in Callers |-> 0]
    /\ fresh = [c \in Callers |-> "no"]
    /\ vacated = [id \in Identifiers |-> "no"]
    /\ armedAt = [id \in Identifiers |-> Null]
    /\ winAllowed = [id \in Identifiers |-> 0]
    /\ recent = [id \in Identifiers |-> ZeroAges]
    /\ noFault = TRUE
    /\ noReset = TRUE
    /\ ms = 0
    /\ zset = [q \in QueueNames |-> {}]
    /\ qRet = [op |-> "none", val |-> Null]
    /\ addLog = [q \in QueueNames |-> <<>>]
    /\ popLog = [q \in QueueNames |-> <<>>]
    /\ kv = [k \in Keys |-> Null]
    /\ kvTtl = [k \in Keys |-> 0]
    /\ sRet = [op |-> "none", val |-> Null]
    /\ scanPc = "idle"
    /\ scanUser = "none"
    /\ scanKeys = <<>>
    /\ scanOut = <<>>
    /\ scanFrom = <<>>
    /\ scanQuiet = TRUE
    /\ gone = [i \in SessionIds |-> "no"]
    /\ uPc = [c \in Callers |-> "idle"]
    /\ uArg = [c \in Callers |-> Null]
    /\ uCur = [c \in Callers |-> Null]
    /\ uReadOk = [c \in Callers |-> TRUE]
    /\ uSeen = [c \in Callers |-> {}]
    /\ cRet = [op |-> "none", val |-> Null]
    /\ aRet = [op |-> "none", key |-> Null, value |-> Null, val |-> Null]
    /\ aLife = [k \in CacheKeys |-> 0]
    /\ aAge = [k \in CacheKeys |-> 0]
    /\ hPc = "idle"
    /\ hRt = 0
    /\ hRet = Null
    /\ facade = "any"

\* The catch block of checkLimit: the call returns the fail-open object.
Catch(c, cmd) ==
    /\ pc' = [pc EXCEPT ![c] = "done"]
    /\ ret' = [ret EXCEPT ![c] = FailOpenResult(maxRequests)]
    /\ threw' = [threw EXCEPT ![c] = cmd]
    /\ noFault' = FALSE

\* checkLimit, first await: redis.incr(key).
Incr(c, id, o) ==
    /\ pc[c] = "idle"
    /\ counter[id] < MaxCount
    /\ LET new == RedisIncr(counter[id])
           adm == Allowed(maxRequests, new)
           track == noFault /\ noReset /\ ~Rejected(o)
       IN
       /\ cid' = [cid EXCEPT ![c] = id]
       /\ IF Applied(o)
          THEN /\ counter' = [counter EXCEPT ![id] = new]
               /\ hits' = [hits EXCEPT ![id] = @ + 1]
               /\ vacated' = [vacated EXCEPT ![id] = "no"]
               /\ fresh' = [fresh EXCEPT ![c] = vacated[id]]
               /\ winAllowed' = [winAllowed EXCEPT ![id] =
                                    IF adm THEN @ + 1 ELSE @]
               /\ recent' = IF track
                            THEN [recent EXCEPT ![id][0] =
                                     IF adm THEN @ + 1 ELSE @]
                            ELSE [i \in Identifiers |-> ZeroAges]
          ELSE /\ UNCHANGED <<counter, hits, vacated, winAllowed>>
               /\ fresh' = [fresh EXCEPT ![c] = "no"]
               /\ recent' = [i \in Identifiers |-> ZeroAges]
       /\ IF Rejected(o)
          THEN /\ Catch(c, "incr")
               /\ cnt' = [cnt EXCEPT ![c] = 0]
               /\ kth' = [kth EXCEPT ![c] = 0]
          ELSE /\ cnt' = [cnt EXCEPT ![c] = new]
               /\ kth' = [kth EXCEPT ![c] = hits'[id]]
               /\ pc' = [pc EXCEPT ![c] =
                            IF ArmsWindow(new) THEN "expire" ELSE "ttl"]
               /\ ret' = [ret EXCEPT ![c] = NoResult]
               /\ threw' = [threw EXCEPT ![c] = "none"]
               /\ UNCHANGED noFault
    /\ UNCHANGED <<qVars, kvVars>>
    /\ UNCHANGED <<now, maxRequests, windowSeconds, ttlLeft, resetRet,
                   armedAt, noReset>>

\* checkLimit, second await (only when currentCount === 1):
\* redis.expire(key, windowSeconds).  EXPIRE on an absent key does nothing.
Expire(c, o) ==
    /\ pc[c] = "expire"
    /\ LET id == cid[c] IN
       /\ IF Applied(o) /\ counter[id] > 0
          THEN /\ ttlLeft' = [ttlLeft EXCEPT ![id] = ExpireArg(windowSeconds)]
               /\ armedAt' = [armedAt EXCEPT ![id] = Some(now)]
          ELSE UNCHANGED <<ttlLeft, armedAt>>
       /\ IF Rejected(o)
          THEN /\ Catch(c, "expire")
               /\ recent' = [i \in Identifiers |-> ZeroAges]
          ELSE /\ pc' = [pc EXCEPT ![c] = "ttl"]
               /\ UNCHANGED <<ret, threw, noFault, recent>>
    /\ UNCHANGED <<qVars, kvVars>>
    /\ UNCHANGED <<now, maxRequests, windowSeconds, counter, cid, cnt,
                   resetRet, hits, kth, fresh, vacated, winAllowed,
                   noReset>>

\* checkLimit, last await: redis.ttl(key), then the return statement.
Ttl(c, o) ==
    /\ pc[c] = "ttl"
    /\ IF Rejected(o)
       THEN /\ Catch(c, "ttl")
            /\ recent' = [i \in Identifiers |-> ZeroAges]
       ELSE /\ pc' = [pc EXCEPT ![c] = "done"]
            /\ ret' = [ret EXCEPT ![c] =
                          CheckLimitResult(maxRequests, cnt[c],
                                           RedisTtl(cid[c]), now)]
            /\ UNCHANGED <<threw, noFault, recent>>
    /\ UNCHANGED <<qVars, kvVars>>
    /\ UNCHANGED <<now, maxRequests, windowSeconds, counter, ttlLeft, cid,
                   cnt, resetRet, hits, kth, fresh, vacated, armedAt,
                   winAllowed, noReset>>

\* The caller takes the returned object and is free for another call.
Return(c) ==
    /\ pc[c] = "done"
    /\ pc' = [pc EXCEPT ![c] = "idle"]
    /\ cnt' = [cnt EXCEPT ![c] = 0]
    /\ kth' = [kth EXCEPT ![c] = 0]
    /\ ret' = [ret EXCEPT ![c] = NoResult]
    /\ threw' = [threw EXCEPT ![c] = "none"]
    /\ fresh' = [fresh EXCEPT ![c] = "no"]
    /\ UNCHANGED <<qVars, kvVars>>
    /\ UNCHANGED <<now, maxRequests, windowSeconds, counter, ttlLeft, cid,
                   resetRet, hits, vacated, armedAt, winAllowed, recent,
                   noFault, noReset>>

\* ------------------------------------------------------------------------
\* rateLimiter.resetLimit: cache.del(key), one DEL command whose rejection
\* cache.del catches and reports as false.
\* ------------------------------------------------------------------------
\* Variant: the DEL addresses another key and leaves the counter.
RedisDelOtherKey(old) == old

RedisDel(old) == 0

DelResult(old, o) == IF Rejected(o) THEN FALSE ELSE old > 0

ResetLimit(id, o) ==
    /\ IF Applied(o)
       THEN /\ counter' = [counter EXCEPT ![id] = RedisDel(@)]
            /\ ttlLeft' = [ttlLeft EXCEPT ![id] =
                              IF counter'[id] = 0 THEN -1 ELSE @]
            /\ hits' = [hits EXCEPT ![id] = 0]
            /\ armedAt' = [armedAt EXCEPT ![id] =
                              IF counter'[id] = 0 THEN Null ELSE @]
            /\ winAllowed' = [winAllowed EXCEPT ![id] = 0]
            /\ vacated' = [vacated EXCEPT ![id] = "reset"]
       ELSE UNCHANGED <<counter, ttlLeft, hits, armedAt, winAllowed,
                        vacated>>
    /\ resetRet' = Some(DelResult(counter[id], o))
    /\ noReset' = FALSE
    /\ noFault' = (noFault /\ ~Rejected(o))
    /\ recent' = [i \in Identifiers |-> ZeroAges]
    /\ UNCHANGED <<qVars, kvVars>>
    /\ UNCHANGED <<now, maxRequests, windowSeconds, pc, cid, cnt, ret, threw,
                   kth, fresh>>

\* ------------------------------------------------------------------------
\* One second passes: every key with an expiry loses a second, and a key
\* whose expiry is reached is removed by the store.
\* ------------------------------------------------------------------------
Lapses(id) == counter[id] > 0 /\ ttlLeft[id] = 1

Tick ==
    /\ now < MaxTime
    /\ now' = now + 1
    /\ counter' = [id \in Identifiers |->
                      IF Lapses(id) THEN 0 ELSE counter[id]]
    /\ ttlLeft' = [id \in Identifiers |->
                      IF Lapses(id) THEN -1
                      ELSE IF ttlLeft[id] > 0 THEN ttlLeft[id] - 1
                      ELSE ttlLeft[id]]
    /\ hits' = [id \in Identifiers |-> IF Lapses(id) THEN 0 ELSE hits[id]]
    /\ armedAt' = [id \in Identifiers |->
                      IF Lapses(id) THEN Null ELSE armedAt[id]]
    /\ winAllowed' = [id \in Identifiers |->
                         IF Lapses(id) THEN 0 ELSE winAllowed[id]]
    /\ recent' = [id \in Identifiers |->
                     [a \in 0..(MaxW - 1) |->
                         IF a = 0 THEN 0 ELSE recent[id][a - 1]]]
    /\ vacated' = [id \in Identifiers |->
                      IF Lapses(id) THEN "lapse" ELSE vacated[id]]
    /\ UNCHANGED <<qVars, kvVars>>
    /\ UNCHANGED <<maxRequests, windowSeconds, pc, cid, cnt, ret, threw,
                   resetRet, kth, fresh, noFault, noReset>>

Next ==
    \/ \E c \in Callers, id \in Identifiers, o \in Outcomes : Incr(c, id, o)
    \/ \E c \in Callers, o \in Outcomes : Expire(c, o)
    \/ \E c \in Callers, o \in Outcomes : Ttl(c, o)
    \/ \E c \in Callers : Return(c)
    \/ \E id \in Identifiers, o \in Outcomes : ResetLimit(id, o)
    \/ Tick

Spec == Init /\ [][Next]_vars

\* ------------------------------------------------------------------------
\* Jobs and their serialized form
\* ------------------------------------------------------------------------
\* The job id `job:${Date.now()}:${suffix}`.
JobId(t, suffix) == <<"job", t, suffix>>

\* The job object addJob builds.
Job(t, suffix, jobData, priority) ==
    [id |-> JobId(t, suffix), data |-> jobData, priority |-> priority,
     createdAt |-> t, status |-> "pending"]

\* JSON.stringify(job): the fields in the order the object was built.
Stringify(job) ==
    <<job.id, job.data, job.priority, job.createdAt, job.status>>

\* JSON.parse(member)
Parse(member) ==
    [id |-> member[1], data |-> member[2], priority |-> member[3],
     createdAt |-> member[4], status |-> member[5]]

\* Order of the characters of the suffixes.
Rank(x) == CASE x = "a" -> 1 [] x = "b" -> 2

\* Order of the serialized documents: {"x":1,"priority":10} sorts before
\* {"x":1}.
DataRank(d) == IF "priority" \in DOMAIN d THEN 1 ELSE 2

\* Byte order of two serialized jobs: the id (timestamp, then suffix) comes
\* first in the text, then the payload.  Members of one score that agree on
\* these agree on the rest.
LexLess(m1, m2) ==
    \/ m1[1][2] < m2[1][2]
    \/ m1[1][2] = m2[1][2] /\ Rank(m1[1][3]) < Rank(m2[1][3])
    \/ m1[1][2] = m2[1][2] /\ m1[1][3] = m2[1][3]
       /\ DataRank(m1[2]) < DataRank(m2[2])

\* ------------------------------------------------------------------------
\* Sorted-set commands
\* ------------------------------------------------------------------------
\* ZADD key score member: a member already in the set only gets the score.
ZAdd(S, score, member) ==
    {e \in S : e[2] # member} \cup {<<score, member>>}

\* The entry ZPOPMAX removes: highest score, and of these the member that
\* sorts last.
\* Variant: ZPOPMIN, lowest score first.
ZMin(S) ==
    CHOOSE e \in S :
        \A f \in S :
            \/ f = e
            \/ f[1] > e[1]
            \/ f[1] = e[1] /\ LexLess(e[2], f[2])

ZMax(S) ==
    CHOOSE e \in S :
        \A f \in S :
            \/ f = e
            \/ f[1] < e[1]
            \/ f[1] = e[1] /\ LexLess(f[2], e[2])

\* Variant: the entry is read and left in the set.
ZKeep(S, e) == S

\* ZPOPMAX takes the entry out of the set.
ZRem(S, e) == S \ {e}

\* ZCARD
ZCard(S) == Cardinality(S)

\* ------------------------------------------------------------------------
\* queue.addJob / getNextJob / getQueueLength
\* ------------------------------------------------------------------------
Added == Len(addLog["whatsapp_messages"]) + Len(addLog["automation_rules"])

\* Variant: the job id is returned although ZADD was rejected.
AddJobResultAlwaysId(job, o) == Some(job.id)

\* What addJob returns: the job id, or null from the catch.
AddJobResult(job, o) == IF Rejected(o) THEN Null ELSE Some(job.id)

AddJob(q, jobData, priority, suffix, o) ==
    /\ Added < MaxJobs
    /\ LET job == Job(ms, suffix, jobData, priority)
           member == Stringify(job)
       IN
       /\ qRet' = [op |-> "addJob", val |-> AddJobResult(job, o)]
       /\ IF Applied(o)
          THEN /\ addLog' = [addLog EXCEPT ![q] = Append(@, member)]
               /\ zset' = [zset EXCEPT ![q] = ZAdd(@, priority, member)]
          ELSE UNCHANGED <<zset, addLog>>
    /\ noFault' = (noFault /\ ~Rejected(o))
    /\ UNCHANGED <<now, rlVars, kvVars, ms, popLog>>

\* Variant: an empty reply is turned into an empty job object.
NextJobResultEmptyObject(reply) ==
    IF Len(reply) = 0
    THEN Some([id |-> <<>>, data |-> [x |-> 0], priority |-> 0,
               createdAt |-> 0,
               status |-> "none"])
    ELSE Some(Parse(reply[1]))

\* The job getNextJob returns for the reply of ZPOPMAX: [] or [member, score].
NextJobResult(reply) ==
    IF Len(reply) = 0 THEN Null ELSE Some(Parse(reply[1]))

\* One getNextJob call, of any consumer: concurrent consumers are
\* interleavings of these steps, each a single ZPOPMAX command.
GetNextJob(q, o) ==
    LET S == zset[q]
        popped == Applied(o) /\ S # {}
        top == ZMax(S)
        reply == IF popped THEN <<top[2], top[1]>> ELSE <<>>
    IN
    /\ noFault' = (noFault /\ ~Rejected(o))
    /\ qRet' = [op |-> "getNextJob",
                val |-> IF Rejected(o) THEN Null ELSE NextJobResult(reply)]
    /\ zset' = [zset EXCEPT ![q] = IF popped THEN ZRem(S, top) ELSE S]
    /\ popLog' = [popLog EXCEPT ![q] =
                     IF popped /\ ~Rejected(o)
                     THEN Append(@, [job |-> NextJobResult(reply)[1],
                                     after |-> Len(addLog[q])])
                     ELSE @]
    /\ UNCHANGED <<now, rlVars, kvVars, ms, addLog>>

QueueLength(q) == ZCard(zset[q])

\* Variant: the catch of getQueueLength hands on the rejection.
QueueLengthFailureNone == Null

\* What getQueueLength returns from its catch.
QueueLengthFailure == Some(0)

GetQueueLength(q, o) ==
    /\ qRet' = [op |-> "getQueueLength",
                val |-> IF Rejected(o) THEN QueueLengthFailure
                        ELSE Some(QueueLength(q))]
    /\ noFault' = (noFault /\ ~Rejected(o))
    /\ UNCHANGED <<now, rlVars, kvVars, ms, zset, addLog, popLog>>

\* A stored job carries the current reading of Date.now().
Stamped ==
    \E q \in QueueNames :
        \E i \in 1..Len(addLog[q]) : addLog[q][i][1][2] = ms

\* Date.now() advances to its next reading.  The clock is seen only through
\* the job ids, so only readings that differ for two stored jobs are told
\* apart: the next reading is taken once the current one is in a stored id.
MsTick ==
    /\ Stamped
    /\ ms' = ms + 1
    /\ UNCHANGED <<now, noFault, rlVars, kvVars, zset, qRet, addLog, popLog>>

QueueNext ==
    \/ \E q \in QueueNames, d \in Payloads, p \in Priorities,
          x \in Suffixes, o \in Outcomes : AddJob(q, d, p, x, o)
    \/ \E q \in QueueNames, o \in Outcomes : GetNextJob(q, o)
    \/ \E q \in QueueNames, o \in Outcomes : GetQueueLength(q, o)
    \/ MsTick

\* The queues do not read the rate limiter's arguments: fix them.
QueueInit == Init /\ maxRequests = MaxM /\ windowSeconds = MaxW

QueueSpec == QueueInit /\ [][QueueNext]_vars

\* ------------------------------------------------------------------------
\* messageQueue: the message queue and the automation queue
\* ------------------------------------------------------------------------
MessageQueueName == "whatsapp_messages"

\* Variant: the automation wrappers use the name of the message queue.
AutomationQueueNameCopied == "whatsapp_messages"

AutomationQueueName == "automation_rules"

\* data.priority || 0
PriorityOrZero(data) ==
    IF "priority" \in DOMAIN data /\ data.priority # 0
    THEN data.priority ELSE 0

QueueMessage(messageData, suffix, o) ==
    AddJob(MessageQueueName, messageData, PriorityOrZero(messageData),
           suffix, o)

GetNextMessage(o) == GetNextJob(MessageQueueName, o)

QueueAutomation(automationData, suffix, o) ==
    AddJob(AutomationQueueName, automationData,
           PriorityOrZero(automationData), suffix, o)

GetNextAutomation(o) == GetNextJob(AutomationQueueName, o)

MsgNext ==
    \/ \E d \in MessageData, x \in Suffixes, o \in Outcomes :
          QueueMessage(d, x, o)
    \/ \E o \in Outcomes : GetNextMessage(o)
    \/ \E d \in MessageData, x \in Suffixes, o \in Outcomes :
          QueueAutomation(d, x, o)
    \/ \E o \in Outcomes : GetNextAutomation(o)
    \/ \E q \in QueueNames, o \in Outcomes : GetQueueLength(q, o)
    \/ MsTick

MsgSpec == QueueInit /\ [][MsgNext]_vars

\* ------------------------------------------------------------------------
\* cache: set / get / del / expire on a string key
\* ------------------------------------------------------------------------
\* What JSON.stringify writes for value: a document of plain fields as it
\* is, NaN as null, an object without the fields whose value is undefined.
ToJson(value) ==
    IF "kind" \notin DOMAIN value THEN value
    ELSE IF value.kind = "nan" THEN JsNull
    ELSE IF value.kind = "object" THEN [value EXCEPT !.undef = {}]
    ELSE value

\* JSON.stringify(value) and JSON.parse(text): a text is held as the JSON
\* value it spells.
Serialize(value) == <<"json", ToJson(value)>>
Deserialize(text) == text[2]

\* cache.set: SETEX key ttl text when ttlSeconds is truthy, else SET key text
\* (no expiry).
CacheSetKv(key, value, ttlSeconds, o) ==
    IF Applied(o) THEN [kv EXCEPT ![key] = Some(Serialize(value))] ELSE kv

\* Variant: the stored text is replaced and a running expiry is kept.
CacheSetTtlKeep(key, value, ttlSeconds, o) ==
    IF Applied(o)
    THEN [kvTtl EXCEPT ![key] =
            IF @ # 0 THEN @
            ELSE (IF ttlSeconds # 0 THEN ttlSeconds ELSE -1)]
    ELSE kvTtl

CacheSetTtl(key, value, ttlSeconds, o) ==
    IF Applied(o)
    THEN [kvTtl EXCEPT ![key] = IF ttlSeconds # 0 THEN ttlSeconds ELSE -1]
    ELSE kvTtl

\* Variant: set reports success whatever became of its command.
CacheSetResultAlways(o) == TRUE

CacheSetResult(o) == ~Rejected(o)

\* Variant: the catch of cache.get hands out what is stored.
CacheGetResultStale(key, o) ==
    IF kv[key] = Null THEN Null ELSE Some(Deserialize(kv[key][1]))

\* Variant: the parsed value, not the text, is tested for truth.
CacheGetResultTruthy(key, o) ==
    IF Rejected(o) \/ kv[key] = Null THEN Null
    ELSE LET parsed == Deserialize(kv[key][1]) IN
         IF "kind" \in DOMAIN parsed /\ parsed.kind \in {"null", "number"}
         THEN Null ELSE Some(parsed)

\* cache.get: value ? JSON.parse(value) : null, and null from the catch.
CacheGetResult(key, o) ==
    IF Rejected(o) \/ kv[key] = Null
    THEN Null
    ELSE Some(Deserialize(kv[key][1]))

\* cache.del: DEL key, result > 0.
CacheDelKv(key, o) == IF Applied(o) THEN [kv EXCEPT ![key] = Null] ELSE kv

CacheDelTtl(key, o) == IF Applied(o) THEN [kvTtl EXCEPT ![key] = 0] ELSE kvTtl

CacheDelResult(key, o) == ~Rejected(o) /\ kv[key] # Null

\* The time left after EXPIRE key ttlSeconds, ttlSeconds > 0.
ExpireTtl(old, ttlSeconds) == ttlSeconds

\* cache.expire: EXPIRE key ttlSeconds, result === 1.  EXPIRE on an absent
\* key does nothing; with ttlSeconds <= 0 it removes the key.
CacheExpireKv(key, ttlSeconds, o) ==
    IF Applied(o) /\ ttlSeconds <= 0 THEN [kv EXCEPT ![key] = Null] ELSE kv

CacheExpireTtl(key, ttlSeconds, o) ==
    IF Applied(o) /\ kv[key] # Null
    THEN [kvTtl EXCEPT ![key] = IF ttlSeconds <= 0 THEN 0
                                ELSE ExpireTtl(@, ttlSeconds)]
    ELSE kvTtl

\* Variant: true whenever EXPIRE was not rejected.
CacheExpireResultAlways(key, o) == ~Rejected(o)

CacheExpireResult(key, o) == ~Rejected(o) /\ kv[key] # Null

\* The call of getUserSessions stays undisturbed by this step.
StaysQuiet == scanPc = "idle" \/ (scanQuiet /\ kv' = kv)

\* d seconds pass: keys whose time is up are removed by the store.  Time is
\* followed second by second near an expiry and in one stride before.
KvTick(d) ==
    /\ \E k \in Keys : kvTtl[k] > 0 /\ kvTtl[k] <= d + MaxTtl
    /\ kv' = [k \in Keys |->
                IF kvTtl[k] > 0 /\ kvTtl[k] <= d THEN Null ELSE kv[k]]
    /\ kvTtl' = [k \in Keys |->
                   IF kvTtl[k] > 0
                   THEN (IF kvTtl[k] <= d THEN 0 ELSE kvTtl[k] - d)
                   ELSE kvTtl[k]]
    /\ gone' = [i \in SessionIds |->
                  IF kvTtl[SessionKey(i)] > 0 /\ kvTtl[SessionKey(i)] <= d
                  THEN "expired" ELSE gone[i]]
    /\ scanQuiet' = StaysQuiet
    /\ aAge' = [k \in CacheKeys |->
                  IF aLife[k] = 0 THEN aAge[k]
                  ELSE IF aAge[k] + d > MaxTtl THEN MaxTtl + 1
                  ELSE aAge[k] + d]
    /\ UNCHANGED <<now, noFault, facade, rlVars, qVars, hVars,
                   aRet, aLife, cVars, sRet,
                   scanPc, scanUser, scanKeys, scanOut, scanFrom>>

\* ------------------------------------------------------------------------
\* cache called directly
\* ------------------------------------------------------------------------
\* SETEX with a negative time is refused by the store: nothing is stored and
\* the client rejects.
SetOutcome(ttlSeconds, o) == IF ttlSeconds < 0 THEN "err" ELSE o

\* cache.exists: EXISTS key, result === 1.
CacheExistsResult(key, o) == ~Rejected(o) /\ kv[key] # Null

\* cache.ttl: the reply of TTL key (-2 absent, -1 no expiry, else the
\* seconds left), and -1 from the catch.
CacheTtlResult(key, o) ==
    IF Rejected(o) THEN -1
    ELSE IF kv[key] = Null THEN -2
    ELSE kvTtl[key]

CacheSet(key, value, ttlSeconds, o) ==
    LET e == SetOutcome(ttlSeconds, o) IN
    /\ kv' = CacheSetKv(key, value, ttlSeconds, e)
    /\ kvTtl' = CacheSetTtl(key, value, ttlSeconds, e)
    /\ aRet' = [op |-> "set", key |-> key, value |-> Some(value),
                val |-> Some(CacheSetResult(e))]
    /\ aLife' = IF Applied(e) THEN [aLife EXCEPT ![key] = ttlSeconds]
                ELSE aLife
    /\ aAge' = IF Applied(e) THEN [aAge EXCEPT ![key] = 0] ELSE aAge
    /\ UNCHANGED <<now, noFault, facade, rlVars, qVars, hVars, sVars, cVars>>

CacheGet(key, o) ==
    /\ aRet' = [op |-> "get", key |-> key, value |-> Null,
                val |-> CacheGetResult(key, o)]
    /\ UNCHANGED <<now, noFault, facade, rlVars, qVars, hVars,
                   sVars, cVars, kv, kvTtl,
                   aLife, aAge>>

CacheDel(key, o) ==
    /\ kv' = CacheDelKv(key, o)
    /\ kvTtl' = CacheDelTtl(key, o)
    /\ aRet' = [op |-> "del", key |-> key, value |-> Null,
                val |-> Some(CacheDelResult(key, o))]
    /\ aLife' = IF Applied(o) THEN [aLife EXCEPT ![key] = 0] ELSE aLife
    /\ aAge' = IF Applied(o) THEN [aAge EXCEPT ![key] = 0] ELSE aAge
    /\ UNCHANGED <<now, noFault, facade, rlVars, qVars, hVars, sVars, cVars>>

CacheExists(key, o) ==
    /\ aRet' = [op |-> "exists", key |-> key, value |-> Null,
                val |-> Some(CacheExistsResult(key, o))]
    /\ UNCHANGED <<now, noFault, facade, rlVars, qVars, hVars,
                   sVars, cVars, kv, kvTtl,
                   aLife, aAge>>

CacheExpire(key, ttlSeconds, o) ==
    /\ kv' = CacheExpireKv(key, ttlSeconds, o)
    /\ kvTtl' = CacheExpireTtl(key, ttlSeconds, o)
    /\ aRet' = [op |-> "expire", key |-> key, value |-> Null,
                val |-> Some(CacheExpireResult(key, o))]
    /\ aLife' = IF Applied(o) /\ kv[key] # Null
                THEN [aLife EXCEPT ![key] = Max(ttlSeconds, 0)]
                ELSE aLife
    /\ aAge' = IF Applied(o) /\ kv[key] # Null
               THEN [aAge EXCEPT ![key] = 0] ELSE aAge
    /\ UNCHANGED <<now, noFault, facade, rlVars, qVars, hVars, sVars, cVars>>

CacheTtl(key, o) ==
    /\ aRet' = [op |-> "ttl", key |-> key, value |-> Null,
                val |-> Some(CacheTtlResult(key, o))]
    /\ UNCHANGED <<now, noFault, facade, rlVars, qVars, hVars,
                   sVars, cVars, kv, kvTtl,
                   aLife, aAge>>

CacheNext ==
    \/ \E k \in CacheKeys, v \in CacheValues, t \in CacheTtlArgs,
          o \in Outcomes : CacheSet(k, v, t, o)
    \/ \E k \in CacheKeys, o \in Outcomes : CacheGet(k, o)
    \/ \E k \in CacheKeys, o \in Outcomes : CacheDel(k, o)
    \/ \E k \in CacheKeys, o \in Outcomes : CacheExists(k, o)
    \/ \E k \in CacheKeys, t \in CacheTtlArgs, o \in Outcomes :
          CacheExpire(k, t, o)
    \/ \E k \in CacheKeys, o \in Outcomes : CacheTtl(k, o)
    \/ KvTick(1)

CacheSpec == QueueInit /\ [][CacheNext]_vars

\* ------------------------------------------------------------------------
\* sessionStore
\* ------------------------------------------------------------------------
SetSession(sessionId, sessionData, ttlSeconds, o) ==
    LET key == SessionKey(sessionId) IN
    /\ sRet' = [op |-> "setSession", val |-> Some(CacheSetResult(o))]
    /\ kvTtl' = CacheSetTtl(key, sessionData, ttlSeconds, o)
    /\ kv' = CacheSetKv(key, sessionData, ttlSeconds, o)
    /\ gone' = IF Applied(o) THEN [gone EXCEPT ![sessionId] = "no"] ELSE gone
    /\ scanQuiet' = StaysQuiet
    /\ UNCHANGED <<now, noFault, facade, rlVars, qVars, hVars,
                   aVars, cVars, scanPc, scanUser,
                   scanKeys, scanOut, scanFrom>>

GetSession(sessionId, o) ==
    /\ sRet' = [op |-> "getSession",
                val |-> CacheGetResult(SessionKey(sessionId), o)]
    /\ UNCHANGED <<now, noFault, facade, rlVars, qVars, hVars,
                   aVars, cVars, kv, kvTtl, scanPc,
                   scanUser, scanKeys, scanOut, scanFrom, scanQuiet, gone>>

DeleteSession(sessionId, o) ==
    LET key == SessionKey(sessionId) IN
    /\ sRet' = [op |-> "deleteSession", val |-> Some(CacheDelResult(key, o))]
    /\ kvTtl' = CacheDelTtl(key, o)
    /\ kv' = CacheDelKv(key, o)
    /\ gone' = IF Applied(o) /\ kv[key] # Null
               THEN [gone EXCEPT ![sessionId] = "revoked"] ELSE gone
    /\ scanQuiet' = StaysQuiet
    /\ UNCHANGED <<now, noFault, facade, rlVars, qVars, hVars,
                   aVars, cVars, scanPc, scanUser,
                   scanKeys, scanOut, scanFrom>>

ExtendSession(sessionId, ttlSeconds, o) ==
    LET key == SessionKey(sessionId) IN
    /\ sRet' = [op |-> "extendSession",
                val |-> Some(CacheExpireResult(key, o))]
    /\ kvTtl' = CacheExpireTtl(key, ttlSeconds, o)
    /\ kv' = CacheExpireKv(key, ttlSeconds, o)
    /\ gone' = IF kv[key] # Null /\ kv'[key] = Null
               THEN [gone EXCEPT ![sessionId] = "expired"] ELSE gone
    /\ scanQuiet' = StaysQuiet
    /\ UNCHANGED <<now, noFault, facade, rlVars, qVars, hVars,
                   aVars, cVars, scanPc, scanUser,
                   scanKeys, scanOut, scanFrom>>

\* The orders in which KEYS may list the ids of S.
Orders(S) ==
    {f \in [1..Cardinality(S) -> S] :
        \A a, b \in 1..Cardinality(S) : a # b => f[a] # f[b]}

\* Variant: every loaded session is kept, whoever owns it.
UserMatchesAny(sessionData, userId) == TRUE

\* sessionData.userId === userId
UserMatches(sessionData, userId) == sessionData.userId = userId

\* { sessionId: key.replace('session:', ''), ...sessionData }
SessionEntry(sessionId, sessionData) ==
    [f \in {"sessionId"} \cup DOMAIN sessionData |->
        IF f \in DOMAIN sessionData THEN sessionData[f] ELSE sessionId]

\* getUserSessions up to its first await: redis.keys('session:*').  A
\* rejected KEYS returns [] from the catch, and so does an empty listing.
ScanKeys(userId, order, o) ==
    /\ scanPc = "idle"
    /\ order \in Orders({i \in SessionIds : kv[SessionKey(i)] # Null})
    /\ scanUser' = userId
    /\ scanOut' = <<>>
    /\ scanFrom' = <<>>
    /\ scanQuiet' = ~Rejected(o)
    /\ IF Rejected(o) \/ order = <<>>
       THEN /\ sRet' = [op |-> "getUserSessions", val |-> <<>>]
            /\ UNCHANGED <<scanPc, scanKeys>>
       ELSE /\ scanPc' = "loop"
            /\ scanKeys' = order
            /\ UNCHANGED sRet
    /\ UNCHANGED <<now, noFault, facade, rlVars, qVars, hVars,
                   aVars, cVars, kv, kvTtl, gone>>

\* One round of the loop: cache.get(key) and the filter; after the last key
\* the call returns its sessions array.
ScanGet(o) ==
    /\ scanPc = "loop"
    /\ LET i == Head(scanKeys)
           sessionData == CacheGetResult(SessionKey(i), o)
           hit == sessionData # Null /\ UserMatches(sessionData[1], scanUser)
           sessions == IF hit
                       THEN Append(scanOut, SessionEntry(i, sessionData[1]))
                       ELSE scanOut
       IN
       /\ scanOut' = sessions
       /\ scanFrom' = IF hit THEN Append(scanFrom, i) ELSE scanFrom
       /\ scanKeys' = Tail(scanKeys)
       /\ scanQuiet' = (scanQuiet /\ ~Rejected(o))
       /\ IF Tail(scanKeys) = <<>>
          THEN /\ scanPc' = "idle"
               /\ sRet' = [op |-> "getUserSessions", val |-> sessions]
          ELSE UNCHANGED <<scanPc, sRet>>
    /\ UNCHANGED <<now, noFault, facade, rlVars, qVars, hVars,
                   aVars, cVars, kv, kvTtl, scanUser,
                   gone>>

SessionNext ==
    \/ \E i \in SessionIds, d \in SessionData, t \in TtlArgs,
          o \in Outcomes : SetSession(i, d, t, o)
    \/ \E i \in SessionIds, o \in Outcomes : GetSession(i, o)
    \/ \E i \in SessionIds, o \in Outcomes : DeleteSession(i, o)
    \/ \E i \in SessionIds, t \in TtlArgs, o \in Outcomes :
          ExtendSession(i, t, o)
    \/ \E u \in UserIds, o \in Outcomes :
          \E order \in Orders({i \in SessionIds : kv[SessionKey(i)] # Null}) :
             ScanKeys(u, order, o)
    \/ \E o \in Outcomes : ScanGet(o)
    \/ KvTick(1)

SessionSpec == QueueInit /\ [][SessionNext]_vars

\* ------------------------------------------------------------------------
\* conversationCache
\* ------------------------------------------------------------------------
\* The fixed ttlSeconds of the cache.set of updateStep
UpdateStepTtl == 7200

\* The ttlSeconds arguments of setState: none (0), shorter than the TTL of
\* updateStep, and longer.
ConvTtlArgs == {0, MaxTtl, UpdateStepTtl + 1}

\* { ...a, ...b }
Spread(a, b) ==
    [f \in DOMAIN a \cup DOMAIN b |-> IF f \in DOMAIN b THEN b[f] ELSE a[f]]

\* currentState.contextData, undefined spreading like {}
ContextOf(currentState) ==
    IF "contextData" \in DOMAIN currentState
    THEN currentState.contextData ELSE EmptyDoc

\* Variant: the contextData argument replaces the stored contextData.
UpdatedStateOverwrite(currentState, step, contextData, t) ==
    Spread(currentState,
           [step |-> step, contextData |-> contextData, updatedAt |-> t])

\* updatedState of updateStep
UpdatedState(currentState, step, contextData, t) ==
    Spread(currentState,
           [step |-> step,
            contextData |-> Spread(ContextOf(currentState), contextData),
            updatedAt |-> t])

\* await cache.get(key) || {}
OrEmpty(r) == IF r = Null THEN EmptyDoc ELSE r[1]

SetState(contactId, conversationData, ttlSeconds, o) ==
    LET key == ConvKey(contactId) IN
    /\ kv' = CacheSetKv(key, conversationData, ttlSeconds, o)
    /\ kvTtl' = CacheSetTtl(key, conversationData, ttlSeconds, o)
    /\ cRet' = [op |-> "setState", val |-> Some(CacheSetResult(o))]
    /\ UNCHANGED <<now, noFault, facade, rlVars, qVars, hVars,
                   aVars, sVars, uPc, uArg, uCur,
                   uReadOk, uSeen>>

GetState(contactId, o) ==
    /\ cRet' = [op |-> "getState",
                val |-> CacheGetResult(ConvKey(contactId), o)]
    /\ UNCHANGED <<now, noFault, facade, rlVars, qVars, hVars,
                   aVars, sVars, kv, kvTtl, uPc, uArg,
                   uCur, uReadOk, uSeen>>

\* The contextData keys of the state stored for contactId
StoredContextKeys(contactId) ==
    IF kv[ConvKey(contactId)] = Null THEN {}
    ELSE DOMAIN ContextOf(Deserialize(kv[ConvKey(contactId)][1]))

\* updateStep up to its first await: the read of the current state.
UpdRead(c, contactId, step, contextData, o) ==
    /\ uPc[c] = "idle"
    /\ uPc' = [uPc EXCEPT ![c] = "write"]
    /\ uArg' = [uArg EXCEPT ![c] = Some([contactId |-> contactId,
                                          step |-> step,
                                          contextData |-> contextData])]
    /\ uCur' = [uCur EXCEPT
                  ![c] = OrEmpty(CacheGetResult(ConvKey(contactId), o))]
    /\ uReadOk' = [uReadOk EXCEPT ![c] = ~Rejected(o)]
    /\ uSeen' = [uSeen EXCEPT ![c] = StoredContextKeys(contactId)]
    /\ UNCHANGED <<now, noFault, facade, rlVars, qVars, hVars,
                   aVars, sVars, kv, kvTtl, cRet>>

\* updateStep after the read: updatedState is built and stored.
UpdWrite(c, o) ==
    /\ uPc[c] = "write"
    /\ LET a == uArg[c][1]
           key == ConvKey(a.contactId)
           updatedState == UpdatedState(uCur[c], a.step, a.contextData, ms)
       IN
       /\ kv' = CacheSetKv(key, updatedState, UpdateStepTtl, o)
       /\ kvTtl' = CacheSetTtl(key, updatedState, UpdateStepTtl, o)
    /\ cRet' = [op |-> "updateStep", val |-> Some(CacheSetResult(o))]
    /\ uPc' = [uPc EXCEPT ![c] = "idle"]
    /\ uArg' = [uArg EXCEPT ![c] = Null]
    /\ uCur' = [uCur EXCEPT ![c] = EmptyDoc]
    /\ uReadOk' = [uReadOk EXCEPT ![c] = TRUE]
    /\ uSeen' = [uSeen EXCEPT ![c] = {}]
    /\ UNCHANGED <<now, noFault, facade, rlVars, qVars, hVars, aVars, sVars>>

ClearState(contactId, o) ==
    LET key == ConvKey(contactId) IN
    /\ kv' = CacheDelKv(key, o)
    /\ kvTtl' = CacheDelTtl(key, o)
    /\ cRet' = [op |-> "clearState", val |-> Some(CacheDelResult(key, o))]
    /\ UNCHANGED <<now, noFault, facade, rlVars, qVars, hVars,
                   aVars, sVars, uPc, uArg, uCur,
                   uReadOk, uSeen>>

\* new Date() advances to its next reading.
StampTick ==
    /\ ms < MaxStamp
    /\ ms' = ms + 1
    /\ UNCHANGED <<now, noFault, rlVars, kvVars, zset, qRet, addLog, popLog>>

ConvNext ==
    \/ \E p \in Participants, d \in ConvData, t \in ConvTtlArgs,
          o \in Outcomes : SetState(p, d, t, o)
    \/ \E p \in Participants, o \in Outcomes : GetState(p, o)
    \/ \E c \in Callers, p \in Participants, st \in Steps,
          x \in ContextArgs, o \in Outcomes : UpdRead(c, p, st, x, o)
    \/ \E c \in Callers, o \in Outcomes : UpdWrite(c, o)
    \/ \E p \in Participants, o \in Outcomes : ClearState(p, o)
    \/ StampTick
    \/ \E d \in {1, UpdateStepTtl - 1} : KvTick(d)

ConvSpec == QueueInit /\ [][ConvNext]_vars

\* ------------------------------------------------------------------------
\* healthCheck
\* ------------------------------------------------------------------------
\* Date.now() - start: the milliseconds the PING took
PingMillis == {0, 1}

\* Replies of INFO memory, as their "key:value" lines: a full one and one
\* without the peak and fragmentation lines.
InfoReplies ==
    {{<<"used_memory_human", "1M">>, <<"used_memory_peak_human", "2M">>,
      <<"mem_fragmentation_ratio", "1.5">>},
     {<<"used_memory_human", "1M">>}}

\* error.message of a rejected command
ErrorMessage(o) ==
    IF o = "err" THEN "Connection is closed." ELSE "Command timed out"

\* memoryInfo[name] after the forEach over the lines: the value of the line
\* with that key, undefined if there is none.
MemoryInfo(info, name) ==
    IF \E l \in info : l[1] = name
    THEN (CHOOSE l \in info : l[1] = name)[2]
    ELSE "undefined"

\* parseFloat: the number the text spells, NaN for undefined.
ParseFloat(text) ==
    IF text = "undefined" THEN [kind |-> "nan"]
    ELSE [kind |-> "number", num |-> text]

HealthyResult(responseTime, info) ==
    [status |-> "healthy", responseTime |-> responseTime,
     memory |-> [used |-> MemoryInfo(info, "used_memory_human"),
                 peak |-> MemoryInfo(info, "used_memory_peak_human"),
                 fragmentation |->
                    ParseFloat(MemoryInfo(info, "mem_fragmentation_ratio"))]]

UnhealthyResult(o) == [status |-> "unhealthy", error |-> ErrorMessage(o)]

\* Variant: a rejected INFO is not noticed.
InfoResultIgnoresFailure(responseTime, info, o) ==
    HealthyResult(responseTime, info)

\* What checkHealth returns once INFO memory settled.
InfoResult(responseTime, info, o) ==
    IF Rejected(o) THEN UnhealthyResult(o)
    ELSE HealthyResult(responseTime, info)

\* checkHealth, first await: redis.ping(), which took d milliseconds.
HealthPing(d, o) ==
    /\ hPc = "idle"
    /\ IF Rejected(o)
       THEN /\ hRet' = UnhealthyResult(o)
            /\ UNCHANGED <<hPc, hRt>>
       ELSE /\ hPc' = "info"
            /\ hRt' = d
            /\ hRet' = Null
    /\ UNCHANGED <<now, noFault, facade, rlVars, qVars,
                   kv, kvTtl, sVars, cVars,
                   aVars>>

\* checkHealth, second await: redis.info('memory'), then the return.
HealthInfo(info, o) ==
    /\ hPc = "info"
    /\ hPc' = "idle"
    /\ hRt' = 0
    /\ hRet' = InfoResult(hRt, info, o)
    /\ UNCHANGED <<now, noFault, facade, rlVars, qVars,
                   kv, kvTtl, sVars, cVars,
                   aVars>>

HealthNext ==
    \/ \E d \in PingMillis, o \in Outcomes : HealthPing(d, o)
    \/ \E info \in InfoReplies, o \in Outcomes : HealthInfo(info, o)
    \/ \E k \in CacheKeys, v \in CacheValues, t \in TtlArgs :
          CacheSet(k, v, t, "ok")
    \/ \E k \in CacheKeys : CacheDel(k, "ok")
    \/ KvTick(1)

HealthSpec == QueueInit /\ [][HealthNext]_vars

\* ========================================================================
\* Properties of the rate limiter
\* ========================================================================
Done(c) == pc[c] = "done"

\* c's call completed without any rejected store command
Succeeded(c) == Done(c) /\ threw[c] = "none"

\* C1: in a run without store failure, the k-th checkLimit call on the
\* current counter key (k counted since the key was last absent, so with no
\* resetLimit and no expiry in between) returns count = k,
\* allowed = (k <= maxRequests) and remaining = max(0, maxRequests - k);
\* every call, denied ones included, has incremented the stored counter.
C1_KthCallResult ==
    noFault =>
        /\ \A id \in Identifiers : counter[id] = hits[id]
        /\ \A c \in Callers :
              Succeeded(c) =>
                 /\ ret[c].count = kth[c]
                 /\ ret[c].allowed = (kth[c] <= maxRequests)
                 /\ ret[c].remaining =
                       (IF kth[c] >= maxRequests THEN 0
                        ELSE maxRequests - kth[c])

\* C1 witness: call maxRequests + 1 of a window returned allowed:false with
\* remaining 0 while call maxRequests of the same window returned
\* allowed:true.
C1_Witness ==
    /\ noFault
    /\ maxRequests >= 1
    /\ \E c, d \in Callers :
          /\ Succeeded(c) /\ Succeeded(d)
          /\ kth[c] = maxRequests + 1 /\ kth[d] = maxRequests
          /\ ret[c] = [ret[c] EXCEPT !.allowed = FALSE, !.remaining = 0,
                                     !.count = maxRequests + 1]
          /\ ret[d].allowed /\ ret[d].count = maxRequests
          /\ counter[cid[c]] = maxRequests + 1

\* Remaining lifetime of a key as an order: no expiry counts as longest.
TtlRank(t) == IF t = -1 THEN MaxW + 1 ELSE t

\* c performs its EXPIRE in this step
ExpireStep(c) == pc[c] = "expire" /\ pc'[c] # "expire"

\* C2: the TTL of a counter is set only by a checkLimit call whose INCR
\* returned 1; in every other step a counter that stays in the store keeps or
\* loses remaining lifetime, and a call whose INCR returned 2 or more never
\* issues EXPIRE.
C2_TtlSetOnlyByFirstCall ==
    [][\A id \in Identifiers :
          /\ (counter[id] > 0 /\ counter'[id] > 0
              /\ ~(\E c \in Callers :
                      ExpireStep(c) /\ cid[c] = id /\ cnt[c] = 1))
             => TtlRank(ttlLeft'[id]) <= TtlRank(ttlLeft[id])
          /\ \A c \in Callers : pc'[c] = "expire" => cnt'[c] = 1]_vars

\* C2 witness: a call that was not the first of its window has returned,
\* after a second of the window had passed, and the TTL was not refreshed.
C2_Witness ==
    \E c \in Callers :
        /\ Succeeded(c) /\ cnt[c] >= 2
        /\ counter[cid[c]] >= 2
        /\ ttlLeft[cid[c]] >= 1 /\ ttlLeft[cid[c]] < windowSeconds
        /\ ret[c].resetTime = Some(now + ttlLeft[cid[c]])

\* C3: whichever store command of checkLimit rejects (INCR, EXPIRE or TTL),
\* the call completes and returns allowed:true.
C3_FailsOpen ==
    \A c \in Callers :
        threw[c] # "none" => (Done(c) /\ ret[c].allowed = TRUE)

\* C3 witness: one call failed in INCR, another failed in TTL after its INCR
\* had counted it above the limit; both returned allowed:true.
C3_Witness ==
    \E c, d \in Callers :
        /\ Done(c) /\ threw[c] = "incr" /\ ret[c].allowed
        /\ Done(d) /\ threw[d] = "ttl" /\ cnt[d] > maxRequests
        /\ ret[d].allowed

\* C4 as claimed: when the INCR succeeded and the TTL lookup rejects, the
\* call returns resetTime = null with count = the incremented counter and
\* allowed = (count <= maxRequests).
C4_TtlFailureKeepsCount ==
    \A c \in Callers :
        (Done(c) /\ threw[c] = "ttl") =>
            /\ ret[c].resetTime = Null
            /\ ret[c].count = cnt[c]
            /\ ret[c].allowed = (cnt[c] <= maxRequests)

\* C4 amended: when the INCR succeeded and the TTL lookup rejects, the call
\* fails open: allowed:true, count 0, remaining maxRequests, resetTime null,
\* whatever the incremented counter is.  count and allowed are authoritative
\* with resetTime = null only when the TTL lookup succeeds and reports no
\* positive TTL (the key has no expiry or is gone).
C4_TtlFailureFailsOpen ==
    \A c \in Callers :
        /\ (Done(c) /\ threw[c] = "ttl") =>
              /\ cnt[c] >= 1
              /\ ret[c].resetTime = Null
              /\ ret[c].count = 0
              /\ ret[c].allowed = TRUE
              /\ ret[c].remaining = maxRequests
        /\ (Succeeded(c) /\ ret[c].resetTime = Null) =>
              /\ ret[c].count = cnt[c]
              /\ ret[c].allowed = (cnt[c] <= maxRequests)

\* C4 witness: a call counted above the limit lost its TTL lookup and
\* returned allowed:true with count 0, and another call's TTL lookup
\* succeeded on a key without expiry and returned resetTime = null.
C4_Witness ==
    \E c, d \in Callers :
        /\ Done(c) /\ threw[c] = "ttl" /\ cnt[c] > maxRequests
        /\ ret[c].count = 0 /\ ret[c].allowed
        /\ Succeeded(d) /\ ret[d].resetTime = Null /\ ret[d].count >= 1

RECURSIVE SumRecent(_, _)
SumRecent(id, w) ==
    IF w = 0 THEN 0 ELSE recent[id][w - 1] + SumRecent(id, w - 1)

\* C6: with no resetLimit and no store failure, at most maxRequests calls
\* are admitted on one counter key (one window), at most 2 x maxRequests
\* calls are admitted in any windowSeconds consecutive seconds, and a call
\* returns allowed:true exactly when its count is at most maxRequests.
C6_FixedWindowBurstBound ==
    (noFault /\ noReset) =>
        /\ \A id \in Identifiers :
              /\ winAllowed[id] <= maxRequests
              /\ SumRecent(id, windowSeconds) <= 2 * maxRequests
        /\ \A c \in Callers :
              Succeeded(c) => (ret[c].allowed = (cnt[c] <= maxRequests))

\* C6 witness: more than maxRequests calls were admitted within
\* windowSeconds consecutive seconds, straddling two windows.
C6_Witness ==
    /\ noFault /\ noReset
    /\ maxRequests >= 2
    /\ \E id \in Identifiers :
          /\ SumRecent(id, windowSeconds) > maxRequests
          /\ winAllowed[id] = maxRequests

\* C7 as claimed (sliding window): with no resetLimit and no store failure,
\* at most maxRequests calls are admitted in any windowSeconds consecutive
\* seconds.
C7_SlidingWindowBound ==
    (noFault /\ noReset) =>
        \A id \in Identifiers :
            SumRecent(id, windowSeconds) <= maxRequests

\* C8: resetLimit removes the counter; the first checkLimit after it returns
\* count = 1 (allowed whenever maxRequests >= 1) and its EXPIRE arms a fresh
\* TTL of windowSeconds, whatever the counter held before.
C8_ResetRestartsWindow ==
    /\ [](\A id \in Identifiers : vacated[id] = "reset" => counter[id] = 0)
    /\ [](\A c \in Callers :
            (Succeeded(c) /\ fresh[c] = "reset")
               => (ret[c].count = 1 /\ ret[c].allowed = (maxRequests >= 1)))
    /\ [][\A c \in Callers :
            (fresh[c] = "reset" /\ pc[c] = "expire" /\ pc'[c] = "ttl"
             /\ counter[cid[c]] > 0)
               => ttlLeft'[cid[c]] = windowSeconds]_vars

\* C8 witness: a call was denied in a window of which a second had passed;
\* after resetLimit the next call returned count 1, allowed, with a reset
\* time a full windowSeconds ahead.
C8_Witness ==
    \E c, d \in Callers :
        /\ Succeeded(d) /\ ~ret[d].allowed /\ ret[d].resetTime # Null
        /\ ret[d].resetTime[1] < now + windowSeconds
        /\ Succeeded(c) /\ fresh[c] = "reset"
        /\ ret[c].allowed /\ ret[c].count = 1
        /\ ret[c].resetTime = Some(now + windowSeconds)
        /\ resetRet = Some(TRUE)
\* ========================================================================
\* Properties of the job queues
\* ========================================================================
\* getNextJob returns a job from q in this step
Pops(q) == Len(popLog'[q]) = Len(popLog[q]) + 1

PriorityOf(member) == Parse(member).priority

\* C9: a getNextJob(q) that returns a job returns a job that was in q, whose
\* priority is at least the priority of every job in q at that moment,
\* removes it, and leaves getQueueLength(q) one less; when priority 5 and then
\* priority 10 were added to q before any getNextJob(q) (and the store never
\* failed), the priority-10 job is the first returned, the length is then 1, and 0 after the second
\* pop, which returns the priority-5 job.
C9_PopsHighestPriority ==
    /\ [][\A q \in QueueNames :
            Pops(q) =>
               LET job == qRet'.val[1]
                   entry == <<job.priority, Stringify(job)>>
               IN
               /\ qRet'.op = "getNextJob"
               /\ entry \in zset[q] /\ entry \notin zset'[q]
               /\ \A e \in zset[q] : job.priority >= PriorityOf(e[2])
               /\ QueueLength(q)' = QueueLength(q) - 1]_vars
    /\ [](\A q \in QueueNames :
            (/\ noFault
             /\ Len(addLog[q]) = 2
             /\ PriorityOf(addLog[q][1]) = 5
             /\ PriorityOf(addLog[q][2]) = 10
             /\ \A i \in 1..Len(popLog[q]) : popLog[q][i].after = 2)
            => /\ Len(popLog[q]) >= 1 => popLog[q][1].job.priority = 10
               /\ Len(popLog[q]) = 1 => QueueLength(q) = 1
               /\ Len(popLog[q]) = 2 =>
                     (QueueLength(q) = 0 /\ popLog[q][2].job.priority = 5))

\* C9 witness: priority 5 then priority 10 were added, the priority-10 job
\* came out first, the priority-5 job second, and getQueueLength returned 0.
C9_Witness ==
    \E q \in QueueNames :
        /\ noFault
        /\ Len(addLog[q]) = 2
        /\ PriorityOf(addLog[q][1]) = 5 /\ PriorityOf(addLog[q][2]) = 10
        /\ Len(popLog[q]) = 2
        /\ popLog[q][1].job.priority = 10 /\ popLog[q][2].job.priority = 5
        /\ popLog[q][1].after = 2
        /\ qRet = [op |-> "getQueueLength", val |-> Some(0)]

\* Occurrences of x in the sequence s
RECURSIVE Count(_, _)
Count(s, x) ==
    IF s = <<>> THEN 0
    ELSE (IF s[1] = x THEN 1 ELSE 0) + Count(Tail(s), x)

\* The jobs of popLog[q], serialized
RECURSIVE PoppedMembers(_)
PoppedMembers(log) ==
    IF log = <<>> THEN <<>>
    ELSE <<Stringify(log[1].job)>> \o PoppedMembers(Tail(log))

InQueue(q, member) == IF \E e \in zset[q] : e[2] = member THEN 1 ELSE 0

\* C10: under every interleaving of consumers (and store failures), a job
\* has been returned by getNextJob, or is still waiting in the queue, at most
\* as many times as addJob added it: no job is handed out twice, to the same
\* or to different consumers, unless it was added again, and nothing is
\* handed out that was not added.
C10_AtMostOnceRemoval ==
    \A q \in QueueNames :
        LET popped == PoppedMembers(popLog[q])
            members == {addLog[q][i] : i \in 1..Len(addLog[q])}
                       \cup {popped[i] : i \in 1..Len(popped)}
                       \cup {e[2] : e \in zset[q]}
        IN
        \A m \in members :
            Count(popped, m) + InQueue(q, m) <= Count(addLog[q], m)

\* C10 witness: two jobs were added to one queue and two getNextJob calls
\* each received one of them, not the same one.
C10_Witness ==
    \E q \in QueueNames :
        /\ Len(addLog[q]) = 2 /\ addLog[q][1] # addLog[q][2]
        /\ Len(popLog[q]) = 2
        /\ \A r \in QueueNames \ {q} : popLog[r] = <<>>
        /\ popLog[q][1].job # popLog[q][2].job
        /\ zset[q] = {}

\* C11: FIFO within a priority.  When two different jobs of one priority
\* were added to q (and nothing else), both before any getNextJob(q), and no
\* store command was rejected, the first job getNextJob(q) returns is the
\* one that was added first.
C11_FifoWithinPriority ==
    \A q \in QueueNames :
        (/\ noFault
         /\ Len(addLog[q]) = 2
         /\ addLog[q][1] # addLog[q][2]
         /\ PriorityOf(addLog[q][1]) = PriorityOf(addLog[q][2])
         /\ Len(popLog[q]) >= 1
         /\ popLog[q][1].after = 2)
        => popLog[q][1].job = Parse(addLog[q][1])

\* C12: a getNextJob on a queue that holds no job (empty, or never added
\* to) returns null, whether or not the store command is rejected, and
\* leaves every queue as it was: a getNextJob step that returns a job, or
\* changes a queue or the record of the returned jobs, is not a getNextJob
\* of a queue that holds no job.
C12_EmptyQueueReturnsNull ==
    [][(/\ qRet'.op = "getNextJob"
        /\ (qRet'.val # Null \/ zset' # zset \/ popLog' # popLog))
       => \A q \in QueueNames :
             zset[q] = {} =>
                \A o \in Outcomes : ~GetNextJob(q, o)]_vars

\* C12 witness: getNextJob returned null without any store failure while
\* one queue was never added to and the other holds a job.
C12_Witness ==
    /\ noFault
    /\ qRet = [op |-> "getNextJob", val |-> Null]
    /\ \E q \in QueueNames :
          /\ addLog[q] = <<>> /\ zset[q] = {}
          /\ \A r \in QueueNames \ {q} : zset[r] # {}

\* C13: a queue operation whose store command is rejected returns its
\* failure value: addJob null, getNextJob null, getQueueLength 0 (the value
\* of the catch), that is, a step that returns anything else is not a step
\* of that operation with a rejected command; and an addJob that returns a
\* job id has stored a job with that id in the queue.
C13_StoreErrorsSurfaceAsNull ==
    /\ [][(qRet'.op = "addJob" /\ qRet'.val # Null) =>
             \A q \in QueueNames, d \in Payloads, p \in Priorities,
                x \in Suffixes :
                /\ \A o \in {"err", "lost"} : ~AddJob(q, d, p, x, o)
                /\ AddJob(q, d, p, x, "ok") =>
                      /\ qRet'.val = Some(JobId(ms, x))
                      /\ \E e \in zset'[q] :
                            Parse(e[2]).id = qRet'.val[1]
                      /\ Len(addLog'[q]) = Len(addLog[q]) + 1]_vars
    /\ [][(qRet'.op = "getNextJob" /\ qRet'.val # Null) =>
             \A q \in QueueNames, o \in {"err", "lost"} :
                ~GetNextJob(q, o)]_vars
    /\ [][(qRet'.op = "getQueueLength" /\ qRet'.val # Some(0)) =>
             \A q \in QueueNames, o \in {"err", "lost"} :
                ~GetQueueLength(q, o)]_vars

\* C13 witness: an addJob whose ZADD was rejected returned null and stored
\* nothing.
C13_Witness ==
    /\ ~noFault
    /\ qRet = [op |-> "addJob", val |-> Null]
    /\ \A q \in QueueNames : zset[q] = {} /\ addLog[q] = <<>>

\* The priority the wrappers pass: the document's own, 0 when it has none.
WrapperPriority(d) == IF "priority" \in DOMAIN d THEN d.priority ELSE 0

\* C14: queueMessage / getNextMessage are addJob / getNextJob on
\* 'whatsapp_messages' and queueAutomation / getNextAutomation are addJob /
\* getNextJob on 'automation_rules' (with the document's priority, or 0), and
\* a step of one queue leaves the contents and the length of the other as
\* they were (for the getNext wrappers in the contrapositive: a step that
\* touches the other queue, or is not that getNextJob, is not the wrapper's).
C14_NamedQueuesSpecialize ==
    [][/\ qRet'.op = "addJob" =>
           \A d \in MessageData, x \in Suffixes, o \in Outcomes :
              /\ QueueMessage(d, x, o) =>
                    /\ AddJob("whatsapp_messages", d, WrapperPriority(d), x, o)
                    /\ zset'["automation_rules"] = zset["automation_rules"]
                    /\ ZCard(zset'["automation_rules"])
                          = ZCard(zset["automation_rules"])
              /\ QueueAutomation(d, x, o) =>
                    /\ AddJob("automation_rules", d, WrapperPriority(d), x, o)
                    /\ zset'["whatsapp_messages"] = zset["whatsapp_messages"]
                    /\ ZCard(zset'["whatsapp_messages"])
                          = ZCard(zset["whatsapp_messages"])
       /\ qRet'.op = "getNextJob" =>
           \A o \in Outcomes :
              /\ (\/ zset'["automation_rules"] # zset["automation_rules"]
                  \/ ~GetNextJob("whatsapp_messages", o))
                    => ~GetNextMessage(o)
              /\ (\/ zset'["whatsapp_messages"] # zset["whatsapp_messages"]
                  \/ ~GetNextJob("automation_rules", o))
                    => ~GetNextAutomation(o)
       /\ \A q \in QueueNames :
             zset'[q] # zset[q] =>
                \A r \in QueueNames \ {q} : zset'[r] = zset[r]]_vars

\* C14 witness: a message and an automation were queued, the message was
\* taken by getNextMessage and the automation is still in its queue.
C14_Witness ==
    /\ noFault
    /\ Len(addLog["whatsapp_messages"]) = 1
    /\ Len(addLog["automation_rules"]) = 1
    /\ Len(popLog["whatsapp_messages"]) = 1
    /\ popLog["whatsapp_messages"][1].job.priority = 10
    /\ zset["whatsapp_messages"] = {}
    /\ ZCard(zset["automation_rules"]) = 1
    /\ popLog["automation_rules"] = <<>>

\* ========================================================================
\* Properties of the session store
\* ========================================================================
StoredSession(i) == Deserialize(kv[SessionKey(i)][1])

Active(i) == kv[SessionKey(i)] # Null

\* The ACTIVE sessions whose stored userId is u
ActiveOf(u) == {i \in SessionIds : Active(i) /\ StoredSession(i).userId = u}

\* getUserSessions returns in this step
ScanReturns ==
    /\ scanPc' = "idle"
    /\ sRet'.op = "getUserSessions"
    /\ \/ /\ scanPc = "idle"
          /\ \E o \in Outcomes :
                \E order \in Orders({i \in SessionIds : Active(i)}) :
                   ScanKeys(scanUser', order, o)
       \/ /\ scanPc = "loop"
          /\ \E o \in Outcomes : ScanGet(o)

\* C15 as stated: whenever getUserSessions(u) returns, its result has one
\* entry for each session that is ACTIVE with userId u, carrying the id of
\* that session, and no other entry.
C15_ExactlyActiveSessions ==
    [][ScanReturns =>
          LET res == sRet'.val
              act == ActiveOf(scanUser')
          IN
          /\ Len(res) = Cardinality(act)
          /\ \A i \in act :
                \E n \in 1..Len(res) :
                   res[n].sessionId = i /\ res[n].userId = scanUser']_vars

\* The sessionId an entry shows: the one in the stored document if it has
\* one, else the id of the key.
ShownId(i, data) ==
    IF "sessionId" \in DOMAIN data THEN data.sessionId ELSE i

\* C15 as amended: every entry of the result was loaded from a session that
\* was ACTIVE with userId u when it was loaded, no session is listed twice,
\* and every entry has userId u; when no command of the call was rejected
\* and no session was written, removed or expired during the call, the
\* entries are exactly the ACTIVE sessions of u, each with the id of its key
\* unless the stored document has a sessionId field of its own.
C15_LoadedActiveSessions ==
    /\ [](/\ Len(scanOut) = Len(scanFrom)
          /\ \A a, b \in 1..Len(scanFrom) : a # b => scanFrom[a] # scanFrom[b]
          /\ \A n \in 1..Len(scanOut) : scanOut[n].userId = scanUser)
    /\ [][(/\ Len(scanOut') = Len(scanOut) + 1
           /\ \E o \in Outcomes : ScanGet(o)) =>
             LET i == Head(scanKeys)
                 e == scanOut'[Len(scanOut')]
             IN
             /\ Active(i)
             /\ StoredSession(i).userId = scanUser
             /\ scanFrom'[Len(scanFrom')] = i
             /\ e.userId = scanUser
             /\ e.sessionId = ShownId(i, StoredSession(i))]_vars
    /\ [][(ScanReturns /\ scanQuiet') =>
             /\ sRet'.val = scanOut'
             /\ {scanFrom'[n] : n \in 1..Len(scanFrom')} = ActiveOf(scanUser')
             /\ \A n \in 1..Len(scanOut') :
                   LET i == scanFrom'[n] IN
                   /\ scanOut'[n].userId = scanUser'
                   /\ scanOut'[n].sessionId = ShownId(i, StoredSession(i))]_vars

\* C15 witness: with one session of ua and one of ub in the store, an
\* undisturbed getUserSessions(ua) returned the session of ua alone.
C15_Witness ==
    /\ scanPc = "idle" /\ scanQuiet /\ scanUser = "ua"
    /\ sRet.op = "getUserSessions"
    /\ Len(sRet.val) = 1
    /\ sRet.val[1] = [sessionId |-> "s1", userId |-> "ua"]
    /\ scanFrom = <<"s1">>
    /\ Active("s2") /\ StoredSession("s2").userId = "ub"

LeftRank(t) == IF t = -1 THEN MaxTtl + 1 ELSE t

\* C17: an extendSession(i, ttlSeconds) with a positive ttlSeconds that
\* reaches the store while i is ACTIVE leaves the stored data as they were
\* and the expiry no earlier than it was.
C17_ExtendOnlyForward ==
    [][\A i \in SessionIds, t \in TtlArgs \ {0}, o \in Outcomes :
          (sRet'.op = "extendSession" /\ Active(i)
           /\ ExtendSession(i, t, o)) =>
             /\ kv'[SessionKey(i)] = kv[SessionKey(i)]
             /\ LeftRank(kvTtl'[SessionKey(i)])
                   >= LeftRank(kvTtl[SessionKey(i)])]_vars

\* C18: getSession returns data only when its GET was not rejected and the
\* key holds a session at that moment, and then the data the key holds; a
\* rejected GET returns null.
C18_LookupFailsClosed ==
    /\ [][sRet'.op = "getSession" =>
           \A i \in SessionIds, o \in Outcomes :
             GetSession(i, o) =>
                /\ Rejected(o) => sRet'.val = Null
                /\ sRet'.val # Null =>
                      /\ Active(i) /\ kvTtl[SessionKey(i)] # 0
                      /\ sRet'.val = Some(StoredSession(i))]_vars
    /\ [](\A i \in SessionIds :
            Active(i) => StoredSession(i) \in SessionData)

\* C18 witness: getSession returned null although every session id holds an
\* ACTIVE session: its lookup failed.
C18_Witness ==
    /\ sRet = [op |-> "getSession", val |-> Null]
    /\ \A i \in SessionIds : Active(i)

\* C19: setSession, deleteSession and extendSession of one session id leave
\* the data and the time left of every other session as they were: a step
\* in which the data or the time left of session j changes is not a
\* setSession, deleteSession or extendSession of another session id.
C19_SessionsIndependent ==
    [][\A j \in SessionIds :
          (\/ kv'[SessionKey(j)] # kv[SessionKey(j)]
           \/ kvTtl'[SessionKey(j)] # kvTtl[SessionKey(j)])
          => \A i \in SessionIds \ {j}, o \in Outcomes :
                /\ sRet'.op = "setSession" =>
                      \A t \in TtlArgs :
                         \* an executed SET leaves its key the expiry it named
                         (Applied(o) => kvTtl'[SessionKey(i)]
                                           = (IF t # 0 THEN t ELSE -1)) =>
                            \A d \in SessionData : ~SetSession(i, d, t, o)
                /\ sRet'.op = "deleteSession" => ~DeleteSession(i, o)
                /\ sRet'.op = "extendSession" =>
                      \A t \in TtlArgs : ~ExtendSession(i, t, o)]_vars

\* C19 witness: two sessions of one user were set with the same TTL, one of
\* them was deleted, and the other is still there with its data and its
\* full time.
C19_Witness ==
    /\ sRet = [op |-> "deleteSession", val |-> Some(TRUE)]
    /\ gone["s1"] = "revoked" /\ ~Active("s1")
    /\ Active("s2") /\ StoredSession("s2") = [userId |-> "ua"]
    /\ kvTtl[SessionKey("s2")] = MaxTtl

\* ========================================================================
\* Properties of the conversation cache
\* ========================================================================
\* The state stored for the participant of c's updateStep
StoredState(p) == Deserialize(kv[ConvKey(p)][1])

\* c's updateStep, whose read was not rejected, stores its state in this
\* step
Updates(c) ==
    /\ uPc[c] = "write" /\ uPc'[c] = "idle"
    /\ uReadOk[c]
    /\ \E o \in {"ok", "lost"} : UpdWrite(c, o)

\* What the merge law says of contextData: old keys keep their value, keys
\* of the argument take the argument's.
Merged(new, oldCtx, argCtx) ==
    /\ DOMAIN new = DOMAIN oldCtx \cup DOMAIN argCtx
    /\ \A k \in DOMAIN argCtx : new[k] = argCtx[k]
    /\ \A k \in DOMAIN oldCtx \ DOMAIN argCtx : new[k] = oldCtx[k]

\* C20 as stated: an updateStep that read the state old (the empty object
\* when there was none) stores a state with the given step, with every
\* other top-level field of old as it was, and with contextData = the
\* contextData of old merged with the argument.
C20_MergeKeepsOtherFields ==
    [][\A c \in Callers :
          Updates(c) =>
             LET a == uArg[c][1]
                 old == uCur[c]
                 new == Deserialize(kv'[ConvKey(a.contactId)][1])
             IN
             /\ new.step = a.step
             /\ Merged(new.contextData, ContextOf(old), a.contextData)
             /\ \A f \in DOMAIN old \ {"step", "contextData"} :
                   f \in DOMAIN new /\ new[f] = old[f]]_vars

\* C20 as amended: the same, except that updatedAt is not kept but set to
\* the time of the call, and the stored state has no field beyond those of
\* old, step, contextData and updatedAt.
C20_MergeLaw ==
    [][\A c \in Callers :
          Updates(c) =>
             LET a == uArg[c][1]
                 old == uCur[c]
                 new == Deserialize(kv'[ConvKey(a.contactId)][1])
             IN
             /\ kv'[ConvKey(a.contactId)] # Null
             /\ new.step = a.step
             /\ Merged(new.contextData, ContextOf(old), a.contextData)
             /\ new.updatedAt = ms
             /\ DOMAIN new
                   = DOMAIN old \cup {"step", "contextData", "updatedAt"}
             /\ \A f \in DOMAIN old \ {"step", "contextData", "updatedAt"} :
                   new[f] = old[f]]_vars

\* C20 witness: an updateStep(s1, 2, {b: 2}) returned true and the stored
\* state has step 2, the old key a, the key b with the new value, the
\* other field it had, and the stamp of a later reading of the clock.
C20_Witness ==
    /\ cRet = [op |-> "updateStep", val |-> Some(TRUE)]
    /\ kv[ConvKey("s1")] # Null
    /\ StoredState("s1") = [step |-> 2, contextData |-> [a |-> 1, b |-> 2],
                            lang |-> "en", updatedAt |-> 1]

\* C21: an updateStep that succeeds (its write returns true) never removes a
\* contextData key that the stored state had when updateStep was called,
\* whether or not its read of the current state was rejected.
C21_UpdateNeverRemovesKeys ==
    [][\A c \in Callers, p \in Participants :
          (/\ uPc[c] = "write" /\ uPc'[c] = "idle"
           /\ uArg[c][1].contactId = p
           /\ UpdWrite(c, "ok"))
          => uSeen[c] \subseteq StoredContextKeys(p)']_vars

\* c's updateStep for participant p returns true in this step
UpdateSucceeds(c, p) ==
    /\ uPc[c] = "write" /\ uPc'[c] = "idle"
    /\ uArg[c][1].contactId = p
    /\ UpdWrite(c, "ok")

\* C22: an updateStep that returns true leaves the state stored with 7200
\* seconds to live, whatever time the key had left before (none, less,
\* more, or no expiry); a stored state stays as it is while its time has
\* not run out and is absent, and read as null by getState, once it has.
C22_FreshTtlOnUpdate ==
    /\ [][\A c \in Callers, p \in Participants :
             UpdateSucceeds(c, p) =>
                /\ kv'[ConvKey(p)] # Null
                /\ kvTtl'[ConvKey(p)] = 7200]_vars
    /\ [](\A p \in Participants :
            kv[ConvKey(p)] = Null <=> kvTtl[ConvKey(p)] = 0)
    /\ [][\A p \in Participants, d \in {1, 7199} :
             (kvTtl[ConvKey(p)] > 0 /\ cRet' = cRet /\ uPc' = uPc
                /\ KvTick(d)) =>
                IF kvTtl[ConvKey(p)] <= d
                THEN kv'[ConvKey(p)] = Null
                ELSE /\ kv'[ConvKey(p)] = kv[ConvKey(p)]
                     /\ kvTtl'[ConvKey(p)] = kvTtl[ConvKey(p)] - d]_vars
    /\ [][cRet'.op = "getState" =>
             \A p \in Participants :
                (kv[ConvKey(p)] = Null /\ GetState(p, "ok")) =>
                   cRet'.val = Null]_vars

\* C22 witness: an updateStep returned true on a state that setState had
\* stored (it has the field lang, which only setState writes), and the
\* state has 7200 seconds left.
C22_Witness ==
    /\ cRet = [op |-> "updateStep", val |-> Some(TRUE)]
    /\ kv[ConvKey("s1")] # Null
    /\ "lang" \in DOMAIN StoredState("s1")
    /\ kvTtl[ConvKey("s1")] = 7200

\* ========================================================================
\* Properties of the cache
\* ========================================================================
\* The values JSON can spell: no NaN, no field whose value is undefined
JsonSerializable(value) ==
    \/ "kind" \notin DOMAIN value
    \/ value.kind \in {"null", "number", "string", "boolean"}
    \/ value.kind = "object" /\ value.undef = {}

\* The JavaScript value a call of cache.get hands to its caller
JsResult(r) == IF r = Null THEN JsNull ELSE r[1]

\* The last cache call was set(k, v, ...), it returned true, and no time
\* has passed since
JustSet(k, v) ==
    /\ aRet.op = "set" /\ aRet.key = k
    /\ aRet.value = Some(v) /\ aRet.val = Some(TRUE)
    /\ aAge[k] = 0

AbsentIsReported ==
    /\ [][aRet'.op = "get" =>
            \A k \in CacheKeys, o \in Outcomes :
               (kv[k] = Null /\ CacheGet(k, o)) => aRet'.val = Null]_vars
    /\ [][aRet'.op = "exists" =>
            \A k \in CacheKeys, o \in Outcomes :
               (kv[k] = Null /\ CacheExists(k, o))
                  => aRet'.val = Some(FALSE)]_vars

\* C24 as stated: every entry stored by set(key, value, ttl) is absent once
\* ttl seconds have passed since the last set or expire on the key (so an
\* entry that is present is younger than its ttl), and get then returns nil
\* and exists false.  Violated: set with ttlSeconds = 0 stores the entry
\* with SET, and the entry is present after 0 seconds and ever after.
C24_AbsentAfterTtl ==
    /\ [](\A k \in CacheKeys : kv[k] # Null => aAge[k] < aLife[k])
    /\ AbsentIsReported

\* What does hold: an entry stored by set with ttl >= 1 is present until ttl
\* seconds have passed since the last set or expire on the key and absent
\* from then on, get then returns nil and exists false; an entry stored
\* with ttlSeconds = 0 has no expiry.
C24_AbsentAfterPositiveTtl ==
    /\ [](\A k \in CacheKeys :
             aLife[k] > 0 => (kv[k] # Null <=> aAge[k] < aLife[k]))
    /\ [](\A k \in CacheKeys :
             (kv[k] # Null /\ aLife[k] = 0) => kvTtl[k] = -1)
    /\ AbsentIsReported

\* C24 witness: exists answered false about a key that was set with the
\* longest ttl and then left alone for that long.
C24_Witness ==
    /\ aRet.op = "exists" /\ aRet.key = <<"key", "k1">>
    /\ aRet.val = Some(FALSE)
    /\ aLife[<<"key", "k1">>] = MaxTtl
    /\ aAge[<<"key", "k1">>] >= MaxTtl
    /\ kv[<<"key", "k1">>] = Null

\* C25: set with ttlSeconds = 0 is rejected (it returns false and stores
\* nothing under the key), and every entry that set stores with a TTL has a
\* TTL of at least 1 second.  Violated: ttlSeconds = 0 is falsy, so set
\* stores the entry with SET, without expiry, and returns true.
C25_ZeroTtlRejected ==
    /\ [][aRet'.op = "set" =>
            \A k \in CacheKeys, v \in CacheValues, o \in Outcomes :
               CacheSet(k, v, 0, o)
                  => /\ aRet'.val = Some(FALSE)
                     /\ kv'[k] = kv[k] /\ kvTtl'[k] = kvTtl[k]]_vars
    /\ [][aRet'.op = "set" =>
            \A k \in CacheKeys, v \in CacheValues,
               t \in CacheTtlArgs, o \in Outcomes :
               (CacheSet(k, v, t, o) /\ kvTtl'[k] # kvTtl[k])
                  => kvTtl'[k] = -1 \/ kvTtl'[k] >= 1]_vars

\* The second half of C25 alone: a TTL that set stores is at least 1 second
\* (SETEX refuses a negative time, and 0 never reaches SETEX).
StoredTtlAtLeastOne ==
    [][aRet'.op = "set" =>
         \A k \in CacheKeys, v \in CacheValues,
            t \in CacheTtlArgs, o \in Outcomes :
            (CacheSet(k, v, t, o) /\ Applied(SetOutcome(t, o)))
               => kvTtl'[k] = (IF t = 0 THEN -1 ELSE t) /\ kvTtl'[k] # 0]_vars

\* The five calls of C26 with a store command that failed: what each returns.
FailedCallReturns ==
    [][\A o \in {"err", "lost"} :
         LET k == aRet'.key IN
         /\ (aRet'.op = "set" /\ aRet'.val # Some(FALSE)) =>
               \A t \in CacheTtlArgs :
                  /\ ~CacheSet(k, aRet'.value[1], t, o)
                  /\ t < 0 => ~CacheSet(k, aRet'.value[1], t, "ok")
         /\ (aRet'.op = "get" /\ aRet'.val # Null) => ~CacheGet(k, o)
         /\ (aRet'.op = "del" /\ aRet'.val # Some(FALSE)) => ~CacheDel(k, o)
         /\ (aRet'.op = "exists" /\ aRet'.val # Some(FALSE))
               => ~CacheExists(k, o)
         /\ (aRet'.op = "expire" /\ aRet'.val # Some(FALSE)) =>
               \A t \in CacheTtlArgs : ~CacheExpire(k, t, o)]_vars

\* A call whose final state differs from its first in the store.
StoreChanges == kv' # kv \/ kvTtl' # kvTtl

\* No change of the store comes from one of the five calls with a store
\* command of outcome o.
NotChangedBy(o) ==
    LET k == aRet'.key IN
    /\ (StoreChanges /\ aRet'.op = "set") =>
          \A t \in CacheTtlArgs : ~CacheSet(k, aRet'.value[1], t, o)
    /\ (StoreChanges /\ aRet'.op = "get") => ~CacheGet(k, o)
    /\ (StoreChanges /\ aRet'.op = "del") => ~CacheDel(k, o)
    /\ (StoreChanges /\ aRet'.op = "exists") => ~CacheExists(k, o)
    /\ (StoreChanges /\ aRet'.op = "expire") =>
          \A t \in CacheTtlArgs : ~CacheExpire(k, t, o)

\* C26 as stated: when its store command fails, set returns false, get
\* returns nil, and delete, exists and expire return false (each returns, so
\* none raises), and the failed call leaves the stored entries unchanged.
\* Violated: a command that the store executed but whose reply did not
\* arrive within commandTimeout also ends in the catch, and the entry is
\* then written, removed or re-timed although the call returned false.
C26_BestEffort ==
    /\ FailedCallReturns
    /\ [][NotChangedBy("err") /\ NotChangedBy("lost")]_vars

\* C26 amended: the returns are as stated for every failure, and the failed
\* call leaves the stored entries unchanged when the store did not execute
\* the command (get and exists never change them); when only the reply was
\* lost, set, delete and expire have had their effect on the key although
\* they return false.
C26_BestEffortUnlessLost ==
    /\ FailedCallReturns
    /\ [][/\ NotChangedBy("err")
          /\ (StoreChanges /\ aRet'.op \in {"get", "exists"}) =>
                \A o \in Outcomes : /\ ~CacheGet(aRet'.key, o)
                                    /\ ~CacheExists(aRet'.key, o)]_vars
    /\ [][LET k == aRet'.key IN
          /\ (aRet'.op = "set" /\ aRet'.val = Some(FALSE)) =>
                \A t \in 0..MaxTtl :
                   CacheSet(k, aRet'.value[1], t, "lost")
                      => /\ kv'[k] = Some(Serialize(aRet'.value[1]))
                         /\ kvTtl'[k] = (IF t = 0 THEN -1 ELSE t)
          /\ (aRet'.op = "del" /\ aRet'.val = Some(FALSE)) =>
                (CacheDel(k, "lost") => kv'[k] = Null)
          /\ (aRet'.op = "expire" /\ aRet'.val = Some(FALSE)) =>
                \A t \in 1..MaxTtl :
                   (kv[k] # Null /\ CacheExpire(k, t, "lost"))
                      => kvTtl'[k] = t]_vars

\* C26 witness: set returned false and the key still holds another value
\* than the one the call was to store.
C26_Witness ==
    /\ aRet.op = "set" /\ aRet.key = <<"key", "k1">>
    /\ aRet.value = Some([kind |-> "number", num |-> 0])
    /\ aRet.val = Some(FALSE)
    /\ kv[<<"key", "k1">>] = Some(Serialize(JsNull))

\* ========================================================================
\* The three removing operations side by side: sessions, conversation
\* states and rate-limit counters are created, removed and left to expire.
\* ========================================================================
RemoveNext ==
    \/ \E i \in SessionIds, t \in {0, MaxTtl} :
          SetSession(i, [userId |-> "ua"], t, "ok")
    \/ \E i \in SessionIds, o \in Outcomes : DeleteSession(i, o)
    \/ \E p \in Participants, t \in {0, MaxTtl} :
          SetState(p, [lang |-> "en"], t, "ok")
    \/ \E p \in Participants, o \in Outcomes : ClearState(p, o)
    \/ \E id \in Identifiers : Incr("c1", id, "ok")
    \/ Expire("c1", "ok")
    \/ Ttl("c1", "ok")
    \/ Return("c1")
    \/ \E id \in Identifiers, o \in Outcomes : ResetLimit(id, o)
    \/ KvTick(1)

RemoveSpec == QueueInit /\ [][RemoveNext]_vars

\* C27: deleteSession, clearState and resetLimit are idempotent.  A call
\* whose command the store executes leaves its key absent, and a call on an
\* absent key returns false (no error) and leaves the whole store as it
\* was: so a second call in a row leaves the store in the state the first
\* call left it in.
C27_Idempotent ==
    /\ [][sRet'.op = "deleteSession" =>
            \A i \in SessionIds, o \in Outcomes :
               DeleteSession(i, o)
                  => /\ Applied(o) => /\ kv'[SessionKey(i)] = Null
                                       /\ kvTtl'[SessionKey(i)] = 0
                     /\ kv[SessionKey(i)] = Null
                           => /\ kv' = kv /\ kvTtl' = kvTtl
                              /\ counter' = counter /\ ttlLeft' = ttlLeft
                              /\ sRet'.val = Some(FALSE)]_vars
    /\ [][cRet'.op = "clearState" =>
            \A p \in Participants, o \in Outcomes :
               ClearState(p, o)
                  => /\ Applied(o) => /\ kv'[ConvKey(p)] = Null
                                       /\ kvTtl'[ConvKey(p)] = 0
                     /\ kv[ConvKey(p)] = Null
                           => /\ kv' = kv /\ kvTtl' = kvTtl
                              /\ counter' = counter /\ ttlLeft' = ttlLeft
                              /\ cRet'.val = Some(FALSE)]_vars
    /\ [][resetRet' # Null =>
            \A id \in Identifiers, o \in Outcomes :
               ResetLimit(id, o)
                  => /\ Applied(o) => /\ counter'[id] = 0
                                       /\ ttlLeft'[id] = -1
                     /\ counter[id] = 0
                           => /\ kv' = kv /\ kvTtl' = kvTtl
                              /\ counter' = counter /\ ttlLeft' = ttlLeft
                              /\ resetRet' = Some(FALSE)]_vars

\* C27 witness: each of the three was called on a key that an earlier call
\* of it had removed, and returned false.
C27_Witness ==
    /\ sRet = [op |-> "deleteSession", val |-> Some(FALSE)]
    /\ gone["s1"] = "revoked" /\ kv[SessionKey("s1")] = Null
    /\ kv[SessionKey("s2")] # Null
    /\ cRet = [op |-> "clearState", val |-> Some(FALSE)]
    /\ kv[ConvKey("s1")] = Null
    /\ resetRet = Some(FALSE) /\ vacated["u1"] = "reset"
    /\ counter["u1"] = 0

\* The keys of the store: strings, counters and sorted sets.
StoreKeys == <<kv, kvTtl, counter, ttlLeft, zset>>

\* C29: checkHealth returns status healthy, with the response time and a
\* memory snapshot, exactly when PING and INFO memory both succeed; when
\* either is rejected it returns status unhealthy with the message of the
\* error; neither step changes a key of the store.
C29_HealthReport ==
    /\ [][hRet' # hRet \/ hPc' # hPc =>
            /\ \A d \in PingMillis, o \in {"err", "lost"} :
                  HealthPing(d, o)
                     => hRet' = [status |-> "unhealthy",
                                 error |-> ErrorMessage(o)]
            /\ \A info \in InfoReplies, o \in {"err", "lost"} :
                  HealthInfo(info, o)
                     => hRet' = [status |-> "unhealthy",
                                 error |-> ErrorMessage(o)]
            /\ \A info \in InfoReplies :
                  HealthInfo(info, "ok")
                     => /\ hRet'.status = "healthy"
                        /\ hRet'.responseTime = hRt
                        /\ hRet'.responseTime \in PingMillis
                        /\ DOMAIN hRet'.memory
                              = {"used", "peak", "fragmentation"}
                        /\ hRet'.memory.used = MemoryInfo(info,
                                                   "used_memory_human")
            /\ (hRet' # Null /\ hRet'.status = "healthy")
                  => hPc = "info" /\ \E info \in InfoReplies :
                                        HealthInfo(info, "ok")]_vars
    /\ [][hRet' # hRet \/ hPc' # hPc => UNCHANGED StoreKeys]_vars

\* C29 witness: a healthy report on a store that holds a key, the PING
\* having taken a millisecond.
C29_Witness ==
    /\ hRet # Null /\ hRet.status = "healthy" /\ hRet.responseTime = 1
    /\ hRet.memory.peak = "2M"
    /\ kv[<<"key", "k1">>] # Null

\* C30: a rate-limit counter that exists in the store has a TTL, also after
\* a store failure between the INCR and the EXPIRE of checkLimit; the only
\* moment granted to a counter without TTL is while the call that created
\* it stands before its EXPIRE.  Violated: when the first call's EXPIRE (or
\* the reply of its INCR) fails, the call ends in the catch and the counter
\* stays without expiry; later calls count 2, 3, ... and never arm it.
C30_CounterHasTtl ==
    \A id \in Identifiers :
       (counter[id] > 0 /\ ~\E c \in Callers : pc[c] = "expire" /\ cid[c] = id)
          => ttlLeft[id] > 0

\* The consequence C30 excludes, for the record: an identifier is denied by
\* a call that found no expiry on its counter.
DeniedWithoutExpiry ==
    \E c \in Callers :
       /\ pc[c] = "done" /\ threw[c] = "none"
       /\ ~ret[c].allowed /\ ret[c].resetTime = Null
       /\ counter[cid[c]] > 0 /\ ttlLeft[cid[c]] = -1

\* ========================================================================
\* The whole layer: a client imports one of the exported objects and calls
\* its operations; every store command of every operation may fail.
\* ========================================================================
Facades ==
    {"cache", "sessionStore", "rateLimiter", "queue", "messageQueue",
     "conversationCache", "healthCheck"}

\* import { ... } from the module
Import(f) ==
    /\ facade = "any"
    /\ facade' = f
    /\ UNCHANGED <<now, noFault, rlVars, qVars, kv, kvTtl, sVars, cVars,
                   aVars, hVars>>

\* The client calls an operation of the object it imported.
Has(f) == facade = f

LayerNext ==
    \/ \E f \in Facades : Import(f)
    \/ \E k \in CacheKeys, t \in CacheTtlArgs, o \in Outcomes :
          Has("cache") /\ CacheSet(k, JsNull, t, o)
    \/ \E k \in CacheKeys, o \in Outcomes : Has("cache") /\ CacheGet(k, o)
    \/ \E k \in CacheKeys, o \in Outcomes : Has("cache") /\ CacheDel(k, o)
    \/ \E k \in CacheKeys, o \in Outcomes :
          Has("cache") /\ CacheExists(k, o)
    \/ \E k \in CacheKeys, t \in CacheTtlArgs, o \in Outcomes :
          Has("cache") /\ CacheExpire(k, t, o)
    \/ \E k \in CacheKeys, o \in Outcomes : Has("cache") /\ CacheTtl(k, o)
    \/ \E i \in SessionIds, d \in SessionData, o \in Outcomes :
          Has("sessionStore") /\ SetSession(i, d, 0, o)
    \/ \E i \in SessionIds, o \in Outcomes :
          Has("sessionStore") /\ GetSession(i, o)
    \/ \E i \in SessionIds, o \in Outcomes :
          Has("sessionStore") /\ DeleteSession(i, o)
    \/ \E i \in SessionIds, o \in Outcomes :
          Has("sessionStore") /\ ExtendSession(i, MaxTtl, o)
    \/ \E u \in UserIds, o \in Outcomes :
          \E order \in Orders({i \in SessionIds : kv[SessionKey(i)] # Null}) :
             Has("sessionStore") /\ ScanKeys(u, order, o)
    \/ \E o \in Outcomes : Has("sessionStore") /\ ScanGet(o)
    \/ \E c \in Callers, id \in Identifiers, o \in Outcomes :
          Has("rateLimiter") /\ Incr(c, id, o)
    \/ \E c \in Callers, o \in Outcomes : Has("rateLimiter") /\ Expire(c, o)
    \/ \E c \in Callers, o \in Outcomes : Has("rateLimiter") /\ Ttl(c, o)
    \/ \E c \in Callers : Has("rateLimiter") /\ Return(c)
    \/ \E id \in Identifiers, o \in Outcomes :
          Has("rateLimiter") /\ ResetLimit(id, o)
    \/ \E q \in QueueNames, d \in Payloads, p \in Priorities,
          x \in Suffixes, o \in Outcomes :
          Has("queue") /\ AddJob(q, d, p, x, o)
    \/ \E q \in QueueNames, o \in Outcomes :
          Has("queue") /\ GetNextJob(q, o)
    \/ \E q \in QueueNames, o \in Outcomes :
          Has("queue") /\ GetQueueLength(q, o)
    \/ \E d \in MessageData, x \in Suffixes, o \in Outcomes :
          Has("messageQueue") /\ QueueMessage(d, x, o)
    \/ \E o \in Outcomes : Has("messageQueue") /\ GetNextMessage(o)
    \/ \E d \in MessageData, x \in Suffixes, o \in Outcomes :
          Has("messageQueue") /\ QueueAutomation(d, x, o)
    \/ \E o \in Outcomes : Has("messageQueue") /\ GetNextAutomation(o)
    \/ \E p \in Participants, d \in ConvData, o \in Outcomes :
          Has("conversationCache") /\ SetState(p, d, 0, o)
    \/ \E p \in Participants, o \in Outcomes :
          Has("conversationCache") /\ GetState(p, o)
    \/ \E c \in Callers, p \in Participants, st \in Steps,
          x \in ContextArgs, o \in Outcomes :
          Has("conversationCache") /\ UpdRead(c, p, st, x, o)
    \/ \E c \in Callers, o \in Outcomes :
          Has("conversationCache") /\ UpdWrite(c, o)
    \/ \E p \in Participants, o \in Outcomes :
          Has("conversationCache") /\ ClearState(p, o)
    \/ \E d \in PingMillis, o \in Outcomes :
          Has("healthCheck") /\ HealthPing(d, o)
    \/ \E info \in InfoReplies, o \in Outcomes :
          Has("healthCheck") /\ HealthInfo(info, o)

LayerSpec == QueueInit /\ [][LayerNext]_vars

\* The outcomes with which a store command fails for the caller.
Failures == {o \in Outcomes : Rejected(o)}

\* sessionStore, whatever command fails: the four delegating operations
\* return what the cache operation returns, getUserSessions returns the
\* empty array when KEYS fails and goes on to the next key when a GET does.
SessionStoreReturns ==
    [][\A o \in Failures :
         /\ (sRet'.op = "setSession" /\ sRet'.val # Some(FALSE)) =>
               \A i \in SessionIds, d \in SessionData, t \in TtlArgs :
                  ~SetSession(i, d, t, o)
         /\ (sRet'.op = "getSession" /\ sRet'.val # Null) =>
               \A i \in SessionIds : ~GetSession(i, o)
         /\ (sRet'.op = "deleteSession" /\ sRet'.val # Some(FALSE)) =>
               \A i \in SessionIds : ~DeleteSession(i, o)
         /\ (sRet'.op = "extendSession" /\ sRet'.val # Some(FALSE)) =>
               \A i \in SessionIds, t \in TtlArgs : ~ExtendSession(i, t, o)
         /\ (scanPc = "idle" /\ ~scanQuiet' /\ kv' = kv) =>
               \A u \in UserIds :
                  (\E order \in Orders({i \in SessionIds :
                                          kv[SessionKey(i)] # Null}) :
                      ScanKeys(u, order, o))
                     => /\ sRet' = [op |-> "getUserSessions", val |-> <<>>]
                        /\ scanPc' = "idle"
         /\ (scanPc = "loop" /\ scanKeys' # scanKeys) =>
               (ScanGet(o)
                  => /\ scanKeys' = Tail(scanKeys) /\ scanOut' = scanOut
                     /\ IF Len(scanKeys) = 1
                        THEN /\ scanPc' = "idle"
                             /\ sRet' = [op |-> "getUserSessions",
                                         val |-> scanOut]
                        ELSE scanPc' = "loop")]_vars

\* rateLimiter: a checkLimit whose INCR, EXPIRE or TTL fails returns the
\* fail-open object, resetLimit returns false.
RateLimiterReturns ==
    [][pc' # pc \/ resetRet' # resetRet \/ noFault' # noFault =>
         \A o \in Failures, id \in Identifiers :
            /\ \A c \in Callers :
                  (\/ pc[c] = "idle" /\ Incr(c, id, o)
                   \/ pc[c] = "expire" /\ Expire(c, o)
                   \/ pc[c] = "ttl" /\ Ttl(c, o))
                     => /\ pc'[c] = "done"
                        /\ ret'[c] = [allowed |-> TRUE, count |-> 0,
                                      remaining |-> maxRequests,
                                      resetTime |-> Null]
            /\ ResetLimit(id, o) => resetRet' = Some(FALSE)]_vars

\* queue and messageQueue: a failed ZADD or ZPOPMAX gives null, a failed
\* ZCARD gives 0.
QueueReturns ==
    [][qRet'.op # "none" =>
         \A o \in Failures :
            /\ \A q \in QueueNames :
                  /\ \A d \in Payloads \cup MessageData,
                        p \in Priorities \cup {0}, x \in Suffixes :
                        AddJob(q, d, p, x, o)
                           => qRet' = [op |-> "addJob", val |-> Null]
                  /\ GetNextJob(q, o)
                        => qRet' = [op |-> "getNextJob", val |-> Null]
                  /\ GetQueueLength(q, o)
                        => qRet' = [op |-> "getQueueLength",
                                    val |-> Some(0)]
            /\ \A d \in MessageData, x \in Suffixes :
                  (QueueMessage(d, x, o) \/ QueueAutomation(d, x, o))
                     => qRet' = [op |-> "addJob", val |-> Null]
            /\ (GetNextMessage(o) \/ GetNextAutomation(o))
                  => qRet' = [op |-> "getNextJob", val |-> Null]]_vars

\* conversationCache: setState and clearState return false, getState
\* null; updateStep goes on to its write with an empty state when its read
\* fails and returns false when its write fails.
ConversationCacheReturns ==
    [][cRet' # cRet \/ uPc' # uPc =>
         \A o \in Failures, p \in Participants :
            /\ \A d \in ConvData, t \in ConvTtlArgs :
                  SetState(p, d, t, o)
                     => cRet' = [op |-> "setState", val |-> Some(FALSE)]
            /\ GetState(p, o) => cRet' = [op |-> "getState", val |-> Null]
            /\ ClearState(p, o)
                  => cRet' = [op |-> "clearState", val |-> Some(FALSE)]
            /\ \A c \in Callers :
                  /\ \A st \in Steps, x \in ContextArgs :
                        (uPc[c] = "idle" /\ UpdRead(c, p, st, x, o))
                           => uPc'[c] = "write" /\ uCur'[c] = EmptyDoc
                  /\ (uPc[c] = "write" /\ UpdWrite(c, o))
                        => /\ uPc'[c] = "idle"
                           /\ cRet' = [op |-> "updateStep",
                                       val |-> Some(FALSE)]]_vars

\* healthCheck: a failed PING or INFO gives the unhealthy report.
HealthCheckReturns ==
    [][hRet' # hRet \/ hPc' # hPc =>
         \A o \in Failures :
            /\ \A d \in PingMillis :
                  (hPc = "idle" /\ HealthPing(d, o))
                     => hPc' = "idle" /\ hRet'.status = "unhealthy"
            /\ \A info \in InfoReplies :
                  (hPc = "info" /\ HealthInfo(info, o))
                     => hPc' = "idle" /\ hRet'.status = "unhealthy"]_vars

\* C28: no public operation of the layer raises when a store command of it
\* fails, at whichever point of the operation: the operation completes and
\* returns its failure indicator (false, null, [], 0, -1, the fail-open
\* object, the unhealthy report) or, for a failed read inside a longer
\* operation, goes on to its next step.
C28_NeverRaises ==
    /\ FailedCallReturns
    /\ [][aRet'.op = "ttl" =>
            \A k \in CacheKeys, o \in Failures :
               CacheTtl(k, o) => aRet'.val = Some(-1)]_vars
    /\ SessionStoreReturns
    /\ RateLimiterReturns
    /\ QueueReturns
    /\ ConversationCacheReturns
    /\ HealthCheckReturns

\* C28 witness: a checkLimit whose TTL lookup failed after its INCR and
\* EXPIRE went through has returned the fail-open object.
C28_Witness ==
    /\ facade = "rateLimiter"
    /\ pc["c1"] = "done" /\ threw["c1"] = "ttl"
    /\ ret["c1"].allowed /\ ret["c1"].count = 0
    /\ counter["u1"] = 1 /\ ttlLeft["u1"] = windowSeconds

\* ========================================================================
\* Concurrent calls of updateStep
\* ========================================================================
\* contextData arguments with no key in common
RaceArgs == {[b |-> 2], [c |-> 3]}

\* Callers run updateStep for one participant side by side; no command is
\* rejected and nothing else writes the state.
RaceNext ==
    \/ \E c \in Callers, p \in Participants, st \in Steps, x \in RaceArgs :
          UpdRead(c, p, st, x, "ok")
    \/ \E c \in Callers : UpdWrite(c, "ok")
    \/ \E p \in Participants : GetState(p, "ok")
    \/ StampTick

RaceSpec == QueueInit /\ [][RaceNext]_vars

\* C31: when an updateStep returns true, the stored contextData has the keys
\* that were stored when it was called, the keys that the updateStep calls
\* completed since then have stored, and the keys of its own argument.
C31_NoLostUpdate ==
    [][\A c \in Callers, p \in Participants :
          UpdateSucceeds(c, p) =>
             (uSeen[c] \cup StoredContextKeys(p)
                 \cup DOMAIN uArg[c][1].contextData)
                \subseteq StoredContextKeys(p)']_vars

\* ========================================================================
\* Concurrent calls of checkLimit
\* ========================================================================
\* c's INCR is answered in this step
Counted(c) == pc[c] = "idle" /\ pc'[c] \in {"expire", "ttl"}

\* C32: with no store failure and no resetLimit, however the commands of
\* concurrent checkLimit calls interleave, the INCR of a call returns one
\* more than the number of calls counted before it on the current counter
\* key, and that number falls (to 0) only when the key's window lapses; so
\* the counts of one window are pairwise distinct, the call that gets 1 is
\* the only one to issue EXPIRE, and at most maxRequests calls of the
\* window return allowed:true.
C32_ConcurrentCallsCounted ==
    /\ [][\A c \in Callers :
             (noFault' /\ noReset' /\ Counted(c)) =>
                LET id == cid'[c] IN
                /\ cnt'[c] = hits[id] + 1
                /\ hits'[id] = hits[id] + 1
                /\ counter'[id] = cnt'[c]
                /\ \A d \in Callers \ {c} : cnt'[d] = cnt[d]
                /\ pc'[c] = "expire" <=> cnt'[c] = 1]_vars
    /\ [][\A id \in Identifiers :
             (noFault' /\ noReset' /\ hits'[id] < hits[id]) =>
                /\ hits'[id] = 0
                /\ Lapses(id) /\ now' = now + 1]_vars
    /\ [][\A c \in Callers :
             (noFault' /\ noReset' /\ ExpireStep(c)) => cnt[c] = 1]_vars
    /\ []((noFault /\ noReset) =>
            /\ \A id \in Identifiers : winAllowed[id] <= maxRequests
            /\ \A c \in Callers :
                  Succeeded(c) =>
                     /\ ret[c].count = cnt[c]
                     /\ ret[c].allowed = (cnt[c] <= maxRequests))

\* C32 witness: before the call counted 1 has issued its EXPIRE, a second
\* call on the same key was counted 2, denied (maxRequests = 1) and has
\* returned with no reset time, the key having no expiry yet.
C32_Witness ==
    /\ noFault /\ noReset /\ now = 0
    /\ maxRequests = 1
    /\ \E c, d \in Callers :
          /\ pc[c] = "expire" /\ cnt[c] = 1
          /\ cid[c] = cid[d]
          /\ Succeeded(d) /\ cnt[d] = 2
          /\ ret[d] = [allowed |-> FALSE, count |-> 2, remaining |-> 0,
                       resetTime |-> Null]
          /\ winAllowed[cid[c]] = 1

\* ========================================================================
\* The length of a queue
\* ========================================================================
\* No two elements of the sequence s are equal
Distinct(s) == \A i, j \in 1..Len(s) : i # j => s[i] # s[j]

\* The addJob calls that stored a job in q less the getNextJob calls that
\* returned one from q
AddedLessReturned(q) == Len(addLog[q]) - Len(popLog[q])

\* C33 as stated: while no store command was rejected, the length of a queue
\* is the number of successful addJob calls on it less the number of
\* getNextJob calls on it that returned a job: no two addJob calls are
\* merged into one queued job.
C33_LengthConservation ==
    noFault =>
        \A q \in QueueNames : QueueLength(q) = AddedLessReturned(q)

\* What does hold: while no store command was rejected, the length of a
\* queue is at most the number of successful addJob calls less the number of
\* getNextJob calls that returned a job, and equal to it, and so returned by
\* getQueueLength, when the serialized jobs added to the queue are pairwise
\* different; an addJob whose serialized job is already queued (same
\* Date.now(), same random suffix, same data and priority) leaves the
\* length as it is, every other successful addJob raises it by one.
C33_LengthConservationDistinctIds ==
    /\ [](noFault =>
            \A q \in QueueNames :
               /\ QueueLength(q) <= AddedLessReturned(q)
               /\ Distinct(addLog[q]) =>
                     QueueLength(q) = AddedLessReturned(q))
    /\ [][(noFault' /\ qRet'.op = "getQueueLength") =>
             \A q \in QueueNames :
                (Distinct(addLog[q]) /\ GetQueueLength(q, "ok")) =>
                   qRet'.val = Some(AddedLessReturned(q))]_vars
    /\ [][\A q \in QueueNames :
             (noFault' /\ Len(addLog'[q]) = Len(addLog[q]) + 1) =>
                LET member == addLog'[q][Len(addLog'[q])] IN
                QueueLength(q)' =
                   QueueLength(q) + (1 - InQueue(q, member))]_vars

\* The regular case: two jobs with the same data and priority were added to one
\* queue in the same millisecond under different suffixes, none was
\* returned, and getQueueLength returned 2.
C33_TwoSuffixes ==
    \E q \in QueueNames :
        /\ noFault
        /\ Len(addLog[q]) = 2 /\ popLog[q] = <<>>
        /\ addLog[q][1][1][2] = addLog[q][2][1][2]
        /\ addLog[q][1][1][3] # addLog[q][2][1][3]
        /\ addLog[q][1][2] = addLog[q][2][2]
        /\ addLog[q][1][3] = addLog[q][2][3]
        /\ qRet = [op |-> "getQueueLength", val |-> Some(2)]

\* ========================================================================
\* Draining a queue
\* ========================================================================
\* Producers add at most MaxJobs jobs, consumers call getNextJob, no store
\* command is rejected.
DrainNext ==
    \/ \E q \in QueueNames, d \in Payloads, p \in Priorities,
          x \in Suffixes : AddJob(q, d, p, x, "ok")
    \/ \E q \in QueueNames : GetNextJob(q, "ok")
    \/ \E q \in QueueNames : GetQueueLength(q, "ok")
    \/ MsTick

\* Consumers keep calling getNextJob on every queue.
ConsumersKeepCalling ==
    \A q \in QueueNames : WF_vars(GetNextJob(q, "ok"))

DrainSpec == QueueInit /\ [][DrainNext]_vars /\ ConsumersKeepCalling

\* Every job added to q was returned as often as it was added
AllReturned(q) ==
    \A i \in 1..Len(addLog[q]) :
        Count(PoppedMembers(popLog[q]), addLog[q][i])
           = Count(addLog[q], addLog[q][i])

\* C34: when consumers keep calling getNextJob and no store command is
\* rejected, the queues are empty from some moment on and by then every job
\* that addJob added has been returned exactly once; on an empty queue
\* getNextJob returns null and getQueueLength returns 0.
C34_QueueDrains ==
    /\ <>[](\A q \in QueueNames : zset[q] = {} /\ AllReturned(q))
    /\ [][\A q \in QueueNames :
             zset[q] = {} =>
                /\ GetNextJob(q, "ok") => qRet'.val = Null
                /\ GetQueueLength(q, "ok") => qRet'.val = Some(0)]_vars

\* What does hold: the queues are empty from some moment on, every job that
\* was added has been returned by then, none more often than it was added,
\* and on an empty queue getNextJob returns null and getQueueLength 0.
C34_QueueDrainsUpToMerges ==
    /\ <>[](\A q \in QueueNames :
              /\ zset[q] = {}
              /\ \A i \in 1..Len(addLog[q]) :
                    LET n == Count(PoppedMembers(popLog[q]), addLog[q][i])
                    IN n >= 1 /\ n <= Count(addLog[q], addLog[q][i]))
    /\ [][\A q \in QueueNames :
             zset[q] = {} =>
                /\ GetNextJob(q, "ok") => qRet'.val = Null
                /\ GetQueueLength(q, "ok") => qRet'.val = Some(0)]_vars

\* ========================================================================
\* Producers that never stop
\* ========================================================================
\* The queue the producers and consumers work on
BusyQueue == "whatsapp_messages"

\* addJob whose ZADD succeeds, its history not recorded.  At most MaxJobs
\* jobs wait at a time.
Produce(q, jobData, priority, suffix) ==
    /\ ZCard(zset[q]) < MaxJobs
    /\ LET job == Job(ms, suffix, jobData, priority)
           member == Stringify(job)
       IN
       /\ qRet' = [op |-> "addJob", val |-> AddJobResult(job, "ok")]
       /\ zset' = [zset EXCEPT ![q] = ZAdd(@, priority, member)]
    /\ UNCHANGED <<now, noFault, rlVars, kvVars, ms, addLog, popLog>>

\* getNextJob whose ZPOPMAX succeeds, its history not recorded.
Consume(q) ==
    LET S == zset[q]
        top == ZMax(S)
        reply == IF S # {} THEN <<top[2], top[1]>> ELSE <<>>
    IN
    /\ zset' = [zset EXCEPT ![q] = IF S # {} THEN ZRem(S, top) ELSE S]
    /\ qRet' = [op |-> "getNextJob", val |-> NextJobResult(reply)]
    /\ UNCHANGED <<now, noFault, rlVars, kvVars, ms, addLog, popLog>>

\* Date.now() advances up to MaxStamp; every later reading is taken for
\* MaxStamp, so a job added with that stamp after its like was returned
\* stands for a newer job.
BusyNext ==
    \/ \E d \in Payloads, p \in Priorities, x \in Suffixes :
          Produce(BusyQueue, d, p, x)
    \/ Consume(BusyQueue)
    \/ StampTick

\* Consumers keep calling getNextJob; producers add whenever they like.
BusySpec == QueueInit /\ [][BusyNext]_vars /\ WF_vars(Consume(BusyQueue))

\* The entries a queue can hold
Entries ==
    {<<p, Stringify(Job(t, x, d, p))>> :
        t \in 0..MaxStamp, x \in Suffixes, d \in Payloads, p \in Priorities}

\* ZPOPMAX takes f before e: higher score, or the same score and a member
\* that sorts later
Above(f, e) == f[1] > e[1] \/ (f[1] = e[1] /\ LexLess(e[2], f[2]))

Outranked(e) == \E f \in zset[BusyQueue] : Above(f, e)

\* getNextJob has just returned the job of entry e
Returned(e) == qRet = [op |-> "getNextJob", val |-> Some(Parse(e[2]))]

\* C35 as stated: while consumers keep calling getNextJob, every job in the
\* queue is eventually returned, whatever the producers add meanwhile.
C35_NoStarvation ==
    \A e \in Entries : (e \in zset[BusyQueue]) ~> Returned(e)

\* C35 as amended: while consumers keep calling getNextJob, a job in the
\* queue is eventually returned unless jobs that ZPOPMAX takes first (higher
\* priority, or the same priority and a later id) are in the queue again
\* and again; a job leaves the queue only by being returned, and only when
\* no such job is waiting.
C35_ReturnedUnlessOutranked ==
    /\ \A e \in Entries :
          (e \in zset[BusyQueue]) ~> (Returned(e) \/ Outranked(e))
    /\ [][\A e \in zset[BusyQueue] :
             e \notin zset'[BusyQueue] => (Returned(e)' /\ ~Outranked(e))]_vars

\* C35 witness: a job of priority 5 added at the first reading of the clock
\* is still waiting after a job of priority 10 added later was returned.
C35_Witness ==
    \E e, f \in Entries :
        /\ e[1] = 5 /\ e[2][1][2] = 0 /\ e \in zset[BusyQueue]
        /\ f[1] = 10 /\ f[2][1][2] = MaxStamp /\ Returned(f)
        /\ ms = MaxStamp

\* ========================================================================
\* The four components side by side
\* ========================================================================
\* Operations of sessionStore, rateLimiter, queue and conversationCache in
\* any order, on a session and a contact of the same id; no command is
\* rejected and no time passes.
SessionOp ==
    \/ SetSession("s1", [userId |-> "ua"], MaxTtl, "ok")
    \/ DeleteSession("s1", "ok")
    \/ ExtendSession("s1", 0, "ok")
    \/ \E order \in Orders({i \in SessionIds : kv[SessionKey(i)] # Null}) :
          ScanKeys("ua", order, "ok")
    \/ ScanGet("ok")

RateOp ==
    \/ \E id \in Identifiers : Incr("c1", id, "ok")
    \/ Expire("c1", "ok")
    \/ Ttl("c1", "ok")
    \/ \E id \in Identifiers : ResetLimit(id, "ok")

QueueOp ==
    \/ Produce(BusyQueue, [x |-> 1], 5, "a")
    \/ Consume(BusyQueue)

ConvOp ==
    \/ \E p \in Participants : SetState(p, [lang |-> "en"], MaxTtl, "ok")
    \/ \E p \in Participants : UpdRead("c1", p, 2, [b |-> 2], "ok")
    \/ UpdWrite("c1", "ok")
    \/ \E p \in Participants : ClearState(p, "ok")

IsoNext == SessionOp \/ RateOp \/ QueueOp \/ ConvOp

IsoSpec == QueueInit /\ [][IsoNext]_vars

\* What the store holds for each component
SessionState == [i \in SessionIds |->
                    <<kv[SessionKey(i)], kvTtl[SessionKey(i)]>>]
ConvState == [p \in Participants |-> <<kv[ConvKey(p)], kvTtl[ConvKey(p)]>>]
RateState == <<counter, ttlLeft>>
QueueState == zset

\* The identifiers the components are called with
AnyIds == SessionIds \cup Participants \cup Identifiers \cup QueueNames

\* The keys of two different components differ whatever the identifiers,
\* equal ones included.
KeysDisjoint ==
    \A a, b \in AnyIds :
        /\ SessionKey(a) # RateLimitKey(b)
        /\ SessionKey(a) # QueueKey(b)
        /\ SessionKey(a) # ConvKey(b)
        /\ RateLimitKey(a) # QueueKey(b)
        /\ RateLimitKey(a) # ConvKey(b)
        /\ QueueKey(a) # ConvKey(b)

\* C36: the keys of two different components differ whatever the
\* identifiers, equal ones included; an operation of one of sessionStore,
\* rateLimiter, queue and conversationCache leaves what the store holds for
\* the other three as it is (none is created, changed, given another expiry
\* or deleted); getUserSessions writes nothing and every entry it loads is
\* the record of a session.
C36_ComponentsIsolated ==
    /\ []KeysDisjoint
    /\ [][/\ (RateState' # RateState \/ QueueState' # QueueState
                \/ ConvState' # ConvState) => ~SessionOp
          /\ (SessionState' # SessionState \/ QueueState' # QueueState
                \/ ConvState' # ConvState) => ~RateOp
          /\ (SessionState' # SessionState \/ RateState' # RateState
                \/ ConvState' # ConvState) => ~QueueOp
          /\ (SessionState' # SessionState \/ RateState' # RateState
                \/ QueueState' # QueueState) => ~ConvOp]_vars
    /\ [][(scanPc = "loop" /\ ScanGet("ok")) =>
             /\ kv' = kv /\ kvTtl' = kvTtl
             /\ RateState' = RateState /\ QueueState' = QueueState
             /\ scanOut' # scanOut =>
                   \E i \in SessionIds :
                      /\ kv[SessionKey(i)] # Null
                      /\ scanOut' = Append(scanOut,
                                      SessionEntry(i, StoredSession(i)))]_vars

\* C36 witness: a session and the conversation state of the contact with
\* the same id are stored, a counter of the rate limiter and a job are
\* stored, and getUserSessions has returned the session alone.
C36_Witness ==
    /\ kv[SessionKey("s1")] # Null /\ kv[ConvKey("s1")] # Null
    /\ StoredSession("s1") = [userId |-> "ua"]
    /\ "lang" \in DOMAIN StoredState("s1")
    /\ \E id \in Identifiers : counter[id] > 0
    /\ zset[BusyQueue] # {}
    /\ sRet = [op |-> "getUserSessions",
               val |-> <<[sessionId |-> "s1", userId |-> "ua"]>>]

====
